---- MODULE Spec2Model ----
(***************************************************************************)
(* Model of the Minitel serial driver (class Minitel, minitel.js): the     *)
(* connect-time speed negotiation, the reply waits, the timer-driven input *)
(* framer and the application-facing operations, as an event-driven state  *)
(* machine.  Each action is one callback of the JavaScript event loop      *)
(* (a timer, a serial-port callback, an application call); promise         *)
(* continuations are run as microtasks before the next callback.           *)
(***************************************************************************)
EXTENDS Integers, Sequences, FiniteSets, TLC

(* ------------------------------------------------------------------------ *)
(* Bounds of the model                                                      *)
(* ------------------------------------------------------------------------ *)
MaxChunks == 3
MaxEcho == 2
MaxSets == 1
MaxCalls == 2
MaxDisconnects == 2
MaxPorts == 2
MaxEvals == 1

(* ------------------------------------------------------------------------ *)
(* Protocol constants (Minitel.CODES)                                       *)
(* ------------------------------------------------------------------------ *)
SOH == 1
EOT == 4
FF == 12
ESC == 27
PRO1 == 57
PRO2 == 58
PRO3 == 59
ENQROM == 123
PROG_VITESSE == 107
AIGUILLAGE_OFF == 96
AIGUILLAGE_FROM == 99
ECRAN_RECEPTEUR == 88
MODEM_EMETTEUR == 82
BEL == 7
US == 31
CURSOR_OFFSET == 64
REP == 18
FUNCTION_KEY_PREFIX == 19

(* Timer durations, in milliseconds. *)
AutoDetectTimeout == 200
DirectTimeout == 2000
EchoTimeout == 1000

(* const baudRates = [1200, 4800, 9600] *)
baudRates == <<1200, 4800, 9600>>

(* Character codes used by the identification table. *)
ChA == 65
ChB == 66
ChC == 67
Chb == 98
Chc == 99
Chd == 100
Chf == 102
Chp == 112
Chr == 114
Chs == 115
Chu == 117
Chv == 118
Chw == 119
Chy == 121
Chz == 122

(* ------------------------------------------------------------------------ *)
(* Pure functions                                                           *)
(* ------------------------------------------------------------------------ *)

(* typeLookup of parseDeviceIdentification: maxSpeed by constructeur+type,  *)
(* 0 when the code is not in the table.                                     *)
typeLookup(c, t) ==
    CASE c = ChC /\ t = Chb -> 1200
      [] c = ChC /\ t = Chc -> 1200
      [] c = ChC /\ t = Chr -> 1200
      [] c = ChB /\ t = Chc -> 1200
      [] c = ChB /\ t = Chr -> 1200
      [] c = ChB /\ t = Chs -> 1200
      [] c = ChC /\ t = Chu -> 4800
      [] c = ChB /\ t = Chu -> 4800
      [] c = ChC /\ t = Chd -> 4800
      [] c = ChC /\ t = Chf -> 4800
      [] c = ChC /\ t = Chw -> 4800
      [] c = ChC /\ t = Chv -> 9600
      [] c = ChB /\ t = Chv -> 9600
      [] c = ChC /\ t = Chz -> 4800
      [] c = ChB /\ t = Chz -> 9600
      [] c = ChA /\ t = Chy -> 4800
      [] c = ChC /\ t = Chp -> 9600
      [] OTHER -> 0

(* The null deviceInfo. *)
NullInfo == [maxSpeed |-> 0, constructeur |-> 0, type |-> 0, version |-> 0]

parseDeviceIdentification(data) ==
    IF Len(data) < 5 THEN NullInfo
    ELSE IF data[1] # SOH THEN NullInfo
    ELSE IF typeLookup(data[2], data[3]) # 0
         THEN [maxSpeed |-> typeLookup(data[2], data[3]),
               constructeur |-> data[2], type |-> data[3], version |-> data[4]]
         ELSE [maxSpeed |-> IF data[3] = Chu \/ data[3] = Chw THEN 4800 ELSE 1200,
               constructeur |-> data[2], type |-> data[3], version |-> data[4]]

(* The predicate _queryDevice waits for. *)
IdPredicate(data) == Len(data) >= 5 /\ data[1] = SOH

(* The predicate disableLocalEcho waits for. *)
AckPredicate(data) ==
    /\ Len(data) >= 5
    /\ data[1] = ESC
    /\ data[2] = PRO3
    /\ data[3] = AIGUILLAGE_FROM

Predicate(p, data) == IF p = "id" THEN IdPredicate(data) ELSE AckPredicate(data)

(* speedCodes of _upgradeSpeed; 0 when the speed has no code. *)
speedCodes(s) ==
    CASE s = 300 -> 82
      [] s = 1200 -> 100
      [] s = 4800 -> 118
      [] s = 9600 -> 127
      [] OTHER -> 0

(* accentMap of charToMinitel, by code point; <<>> when the character is    *)
(* not a key of the table.                                                  *)
accentMap(char) ==
    CASE char = 224 -> <<25, 65, 97>>
      [] char = 232 -> <<25, 65, 101>>
      [] char = 249 -> <<25, 65, 117>>
      [] char = 192 -> <<25, 65, 65>>
      [] char = 200 -> <<25, 65, 69>>
      [] char = 217 -> <<25, 65, 85>>
      [] char = 233 -> <<25, 66, 101>>
      [] char = 201 -> <<25, 66, 69>>
      [] char = 226 -> <<25, 67, 97>>
      [] char = 234 -> <<25, 67, 101>>
      [] char = 238 -> <<25, 67, 105>>
      [] char = 244 -> <<25, 67, 111>>
      [] char = 251 -> <<25, 67, 117>>
      [] char = 194 -> <<25, 67, 65>>
      [] char = 202 -> <<25, 67, 69>>
      [] char = 206 -> <<25, 67, 73>>
      [] char = 212 -> <<25, 67, 79>>
      [] char = 219 -> <<25, 67, 85>>
      [] char = 235 -> <<25, 72, 101>>
      [] char = 239 -> <<25, 72, 105>>
      [] char = 252 -> <<25, 72, 117>>
      [] char = 203 -> <<25, 72, 69>>
      [] char = 207 -> <<25, 72, 73>>
      [] char = 220 -> <<25, 72, 85>>
      [] char = 231 -> <<25, 75, 99>>
      [] char = 199 -> <<25, 75, 67>>
      [] char = 339 -> <<25, 122>>
      [] char = 338 -> <<25, 106>>
      [] char = 163 -> <<25, 35>>
      [] char = 167 -> <<25, 39>>
      [] char = 8592 -> <<25, 44>>
      [] char = 8593 -> <<25, 45>>
      [] char = 8594 -> <<25, 46>>
      [] char = 8595 -> <<25, 47>>
      [] char = 176 -> <<25, 48>>
      [] char = 177 -> <<25, 49>>
      [] char = 188 -> <<25, 60>>
      [] char = 189 -> <<25, 61>>
      [] char = 190 -> <<25, 62>>
      [] char = 946 -> <<25, 123>>
      [] char = 8217 -> <<39>>
      [] char = 8216 -> <<39>>
      [] char = 8221 -> <<34>>
      [] char = 8220 -> <<34>>
      [] char = 171 -> <<34>>
      [] char = 187 -> <<34>>
      [] char = 8249 -> <<39>>
      [] char = 8250 -> <<39>>
      [] OTHER -> <<>>

(* char.charCodeAt(0): the first UTF-16 code unit of the character. *)
charCodeAt0(char) ==
    IF char > 65535 THEN 55296 + ((char - 65536) \div 1024) ELSE char

(* Variant: a character above ASCII that the table lacks is dropped. *)
charToMinitel_DropsUnknown(char) ==
    IF accentMap(char) # <<>> THEN accentMap(char)
    ELSE IF charCodeAt0(char) <= 127 THEN <<charCodeAt0(char)>>
    ELSE <<>>

charToMinitel(char) ==
    IF accentMap(char) # <<>> THEN accentMap(char)
    ELSE IF charCodeAt0(char) <= 127 THEN <<charCodeAt0(char)>>
    ELSE <<63>>

(* Variant: the length of the data is not tested. *)
parseFunctionKey_AnyLength(data) ==
    IF Len(data) >= 2 /\ data[1] = FUNCTION_KEY_PREFIX
    THEN [null |-> FALSE, code |-> data[2]]
    ELSE [null |-> TRUE, code |-> 0]

(* parseFunctionKey: the key code, or null. *)
parseFunctionKey(data) ==
    IF Len(data) = 2 /\ data[1] = FUNCTION_KEY_PREFIX
    THEN [null |-> FALSE, code |-> data[2]]
    ELSE [null |-> TRUE, code |-> 0]

(* writeText(text): the bytes handed to write(), the encodings of the       *)
(* characters of text in iteration order.                                   *)
RECURSIVE writeTextBytes_Reversed(_)
RECURSIVE writeTextBytes(_)
writeTextBytes_Reversed(text) ==
    IF text = <<>> THEN <<>>
    ELSE writeTextBytes_Reversed(Tail(text)) \o charToMinitel(Head(text))

writeTextBytes(text) ==
    IF text = <<>> THEN <<>>
    ELSE charToMinitel(Head(text)) \o writeTextBytes(Tail(text))

(* char.repeat(count) *)
repeat(char, count) == [i \in 1..count |-> char]

(* Buffer.from(array) keeps the low eight bits of each element. *)
BufferFrom(array) == [i \in DOMAIN array |-> array[i] % 256]

(* writeRepeated(char, count) for count <= 64: the buffers handed to        *)
(* write(), none for count <= 0, the literal text up to 3, one REP block    *)
(* from 4 on.                                                               *)
writeRepeatedUpTo64_RepFrom3(char, count) ==
    IF count <= 0 THEN <<>>
    ELSE IF count <= 2 THEN << writeTextBytes(repeat(char, count)) >>
    ELSE << BufferFrom(<<charCodeAt0(char), REP, count - 1 + 64>>) >>

writeRepeatedUpTo64_CountNotReduced(char, count) ==
    IF count <= 0 THEN <<>>
    ELSE IF count <= 3 THEN << writeTextBytes(repeat(char, count)) >>
    ELSE << BufferFrom(<<charCodeAt0(char), REP, count + 64>>) >>

writeRepeatedUpTo64(char, count) ==
    IF count <= 0 THEN <<>>
    ELSE IF count <= 3 THEN << writeTextBytes(repeat(char, count)) >>
    ELSE << BufferFrom(<<charCodeAt0(char), REP, count - 1 + 64>>) >>

(* writeRepeated(char, count): above 64 a block of 64, then the call on the *)
(* remaining count.                                                         *)
writeRepeatedParts_DropsTail(char, count) ==
    IF count <= 64 THEN writeRepeatedUpTo64(char, count)
    ELSE writeRepeatedUpTo64(char, 64)

RECURSIVE writeRepeatedParts(_, _)
writeRepeatedParts(char, count) ==
    IF count <= 64 THEN writeRepeatedUpTo64(char, count)
    ELSE writeRepeatedUpTo64(char, 64) \o writeRepeatedParts(char, count - 64)

(* The names of setFormat's table and their codes. *)
FormatNames == {"white", "very-light", "light", "medium-light", "medium",
                "medium-dark", "dark", "black", "white-background",
                "black-background", "normal", "double-height", "double-width",
                "double", "blink", "steady"}

CODES(name) ==
    CASE name = "white" -> 71
      [] name = "very-light" -> 67
      [] name = "light" -> 70
      [] name = "medium-light" -> 66
      [] name = "medium" -> 69
      [] name = "medium-dark" -> 65
      [] name = "dark" -> 68
      [] name = "black" -> 64
      [] name = "white-background" -> 87
      [] name = "black-background" -> 80
      [] name = "normal" -> 76
      [] name = "double-height" -> 77
      [] name = "double-width" -> 78
      [] name = "double" -> 79
      [] name = "blink" -> 72
      [] name = "steady" -> 73

(* The property names an object literal inherits from Object.prototype      *)
(* that are their own lower-case form.                                      *)
InheritedNames == {"constructor", "__proto__"}

(* formatCodes[name]: the code of a name of the table, undefined for a name *)
(* that is no property, and the inherited function or object otherwise,     *)
(* which Buffer.from stores as 0.                                           *)
formatCodes(name) ==
    IF name \in FormatNames THEN [undefined |-> FALSE, byte |-> CODES(name)]
    ELSE IF name \in InheritedNames THEN [undefined |-> FALSE, byte |-> 0]
    ELSE [undefined |-> TRUE, byte |-> 0]

(* code.toLowerCase() on the names the application passes. *)
toLowerCase(name) ==
    CASE name = "WHITE" -> "white"
      [] name = "Blink" -> "blink"
      [] OTHER -> name

(* The names setFormat is called with. *)
SetFormatNames == {"white", "steady", "WHITE", "Blink", "purple", "", "constructor"}

(* Byte sequences the driver sends. *)
QueryCmd == <<ESC, PRO1, ENQROM>>
ClearCmd == <<FF>>
SpeedCmd(s) == <<ESC, PRO2, PROG_VITESSE, speedCodes(s)>>
EchoOffCmd == <<ESC, PRO3, AIGUILLAGE_OFF, ECRAN_RECEPTEUR, MODEM_EMETTEUR>>

(* ------------------------------------------------------------------------ *)
(* The environment: what the terminal can send                              *)
(* ------------------------------------------------------------------------ *)
(* Identification codes (constructeur, type) of the terminals considered.   *)
DevCodes == { <<ChC, Chb>>, <<ChB, Chu>>, <<ChC, Chv>>, <<88, Chw>> }

IdReply(code) == <<SOH, code[1], code[2], 49, EOT>>
AckReply == <<ESC, PRO3, AIGUILLAGE_FROM, ECRAN_RECEPTEUR, MODEM_EMETTEUR>>
Garbage == <<127>>

VARIABLES
    options,          \* this.options: [auto, baudRate, autoUpgradeSpeed]
    devCode,          \* the attached terminal's identification code
    ports,            \* every SerialPort object created so far
    port,             \* this.port: index into ports, 0 for null
    isConnected,      \* this.isConnected
    inputBuffer,      \* this.inputBuffer
    bufferTimeout,    \* this.bufferTimeout: the last timer created by the framer, 0 for undefined
    timers,           \* the framer's timers that are armed (neither fired nor cleared)
    deviceInfo,       \* this.deviceInfo
    currentBaudRate,  \* this.currentBaudRate, 0 for null
    expectedReplies,  \* this.expectedReplies
    onData,           \* this.onData: an application callback or a wait's handler
    waits,            \* the closures created by _waitForResponse
    micro,            \* wait whose promise continuation is the pending microtask
    cpc,              \* position of the connect() task
    crate,            \* index in baudRates of the candidate being probed
    cwait,            \* the wait _queryDevice is suspended on
    echo,             \* the disableLocalEcho() tasks
    wire,             \* bytes handed to an open port, in order
    delivered,        \* events passed to an application callback, in order
    trace,            \* chunks received and events flushed by the framer, in order
    calls,            \* the application's facade send calls (tasks), in call order
    disc,             \* the disconnect() calls: number made, number completed, ports being closed
    evals,            \* applications of the static functions: argument and result
    log,              \* negotiation events, in order
    nchunks,          \* number of chunks received so far
    nsets             \* number of application assignments to onData

vars == <<options, devCode, ports, port, isConnected, inputBuffer, bufferTimeout, timers,
          deviceInfo, currentBaudRate, expectedReplies, onData, waits, micro,
          cpc, crate, cwait, echo, wire, delivered, trace, calls, disc, evals, log,
          nchunks, nsets>>

AppHandler(k) == [kind |-> "app", id |-> k]
WaitHandler(w) == [kind |-> "wait", id |-> w]

PortIsOpen(ps, p) == p # 0 /\ ps[p].st = "open"

Init ==
    /\ options \in [auto : {TRUE}, baudRate : {0}, autoUpgradeSpeed : BOOLEAN]
                   \cup [auto : {FALSE}, baudRate : {1200, 4800, 9600},
                         autoUpgradeSpeed : BOOLEAN]
    /\ devCode \in DevCodes
    /\ ports = <<>>
    /\ port = 0
    /\ isConnected = FALSE
    /\ inputBuffer = <<>>
    /\ bufferTimeout = 0
    /\ timers = {}
    /\ deviceInfo = NullInfo
    /\ currentBaudRate = 0
    /\ expectedReplies = <<>>
    /\ onData = AppHandler(0)
    /\ waits = <<>>
    /\ micro = 0
    /\ cpc = "idle"
    /\ crate = 0
    /\ cwait = 0
    /\ echo = [k \in 1..MaxEcho |-> [pc |-> "idle", wait |-> 0, sent |-> FALSE]]
    /\ wire = <<>>
    /\ delivered = <<>>
    /\ trace = <<>>
    /\ calls = <<>>
    /\ disc = [n |-> 0, done |-> 0, closing |-> {}]
    /\ evals = <<>>
    /\ log = <<>>
    /\ nchunks = 0
    /\ nsets = 0

(* ------------------------------------------------------------------------ *)
(* Helpers shared by the actions                                            *)
(* ------------------------------------------------------------------------ *)
Ev(e, p) == [ev |-> e, p |-> p]

NewPort(ps, rate, role) == Append(ps, [rate |-> rate, st |-> "opening", role |-> role])

SetPort(ps, p, s) == [ps EXCEPT ![p].st = s]

(* port.write(data) on this.port: the bytes reach the line only if the port *)
(* is open.                                                                 *)
PortWrite(ps, data) ==
    IF PortIsOpen(ps, port) THEN Append(wire, [p |-> port, bytes |-> data]) ELSE wire

(* Variant: the wait is registered without its timer. *)
NewWait_NoTimer(pred, timeout, owner) ==
    [predicate |-> pred, responseData |-> <<>>, timer |-> FALSE, timeout |-> timeout,
     originalOnData |-> onData, st |-> "pending", owner |-> owner]

(* The closure state created by a call of _waitForResponse (the definition  *)
(* in effect is the last one of the class body).                            *)
NewWait(pred, timeout, owner) ==
    [predicate |-> pred, responseData |-> <<>>, timer |-> TRUE, timeout |-> timeout,
     originalOnData |-> onData, st |-> "pending", owner |-> owner]

(* cleanup() of wait w restores this.onData to the value saved at            *)
(* registration.                                                            *)
Cleanup(w) == waits[w].originalOnData

(* Variant: the upgrade is also requested at equal speed. *)
UpgradeWanted_AtEqualSpeed(info) ==
    options.autoUpgradeSpeed /\ info.maxSpeed >= currentBaudRate

(* Upgrade de vitesse si demande et supporte. *)
UpgradeWanted(info) == options.autoUpgradeSpeed /\ info.maxSpeed > currentBaudRate

(* ------------------------------------------------------------------------ *)
(* connect() and _connectAtBaudRate()                                       *)
(* ------------------------------------------------------------------------ *)

(* Variant: the loop stops one candidate early. *)
NextCandidate_StopsEarly(ps, lg) ==
    IF crate < Len(baudRates) - 1
    THEN /\ crate' = crate + 1
         /\ currentBaudRate' = baudRates[crate + 1]
         /\ ports' = NewPort(ps, baudRates[crate + 1], "probe")
         /\ port' = Len(ps) + 1
         /\ cpc' = "opening"
         /\ log' = Append(lg, Ev("open", Len(ps) + 1))
    ELSE /\ cpc' = "failed"
         /\ ports' = ps
         /\ log' = Append(lg, Ev("throw", port))
         /\ UNCHANGED <<crate, currentBaudRate, port>>

(* Variant: the next candidate is opened without recording its speed. *)
NextCandidate_StaleSpeed(ps, lg) ==
    IF crate < Len(baudRates)
    THEN /\ crate' = crate + 1
         /\ currentBaudRate' = currentBaudRate
         /\ ports' = NewPort(ps, baudRates[crate + 1], "probe")
         /\ port' = Len(ps) + 1
         /\ cpc' = "opening"
         /\ log' = Append(lg, Ev("open", Len(ps) + 1))
    ELSE /\ cpc' = "failed"
         /\ ports' = ps
         /\ log' = Append(lg, Ev("throw", port))
         /\ UNCHANGED <<crate, currentBaudRate, port>>

(* The for loop of connect() moves to the next candidate, or throws after   *)
(* the last one.                                                            *)
NextCandidate(ps, lg) ==
    IF crate < Len(baudRates)
    THEN /\ crate' = crate + 1
         /\ currentBaudRate' = baudRates[crate + 1]
         /\ ports' = NewPort(ps, baudRates[crate + 1], "probe")
         /\ port' = Len(ps) + 1
         /\ cpc' = "opening"
         /\ log' = Append(lg, Ev("open", Len(ps) + 1))
    ELSE /\ cpc' = "failed"
         /\ ports' = ps
         /\ log' = Append(lg, Ev("throw", port))
         /\ UNCHANGED <<crate, currentBaudRate, port>>

(* Variant: the catch block does not close the port. *)
RejectAttempt_NoClose(ps, lg) ==
    IF options.auto
    THEN NextCandidate(ps, lg)
    ELSE /\ cpc' = "failed"
         /\ ports' = ps
         /\ log' = Append(lg, Ev("throw", port))
         /\ UNCHANGED <<crate, currentBaudRate, port>>

(* Variant: a failed attempt at a fixed speed moves on to the candidates. *)
RejectAttempt_AlwaysRetry(ps, lg) ==
    IF PortIsOpen(ps, port)
    THEN /\ ports' = SetPort(ps, port, "closing")
         /\ cpc' = "closing"
         /\ log' = Append(lg, Ev("close", port))
         /\ UNCHANGED <<crate, currentBaudRate, port>>
    ELSE NextCandidate(ps, lg)

(* The promise of _connectAtBaudRate is rejected: the catch block of the    *)
(* auto-detect loop, or the rejection of connect() at a fixed speed.        *)
RejectAttempt(ps, lg) ==
    IF options.auto
    THEN IF PortIsOpen(ps, port)
         THEN /\ ports' = SetPort(ps, port, "closing")
              /\ cpc' = "closing"
              /\ log' = Append(lg, Ev("close", port))
              /\ UNCHANGED <<crate, currentBaudRate, port>>
         ELSE NextCandidate(ps, lg)
    ELSE /\ cpc' = "failed"
         /\ ports' = ps
         /\ log' = Append(lg, Ev("throw", port))
         /\ UNCHANGED <<crate, currentBaudRate, port>>

(* _queryDevice: send the identification query and register the wait. *)
StartQuery(ps, lg) ==
    /\ ports' = ps
    /\ wire' = PortWrite(ps, QueryCmd)
    /\ waits' = Append(waits, NewWait("id", IF options.auto THEN AutoDetectTimeout
                                                          ELSE DirectTimeout, 0))
    /\ onData' = WaitHandler(Len(waits) + 1)
    /\ cwait' = Len(waits) + 1
    /\ cpc' = "querying"
    /\ log' = Append(lg, Ev("query", port))
    /\ UNCHANGED <<port, crate, currentBaudRate>>

ConnectCall ==
    /\ micro = 0
    /\ cpc = "idle"
    /\ crate' = IF options.auto THEN 1 ELSE 0
    /\ currentBaudRate' = IF options.auto THEN baudRates[1] ELSE options.baudRate
    /\ ports' = NewPort(ports, currentBaudRate', "probe")
    /\ port' = Len(ports) + 1
    /\ cpc' = "opening"
    /\ log' = <<Ev("open", Len(ports) + 1)>>
    /\ UNCHANGED <<options, devCode, isConnected, inputBuffer, bufferTimeout, timers, deviceInfo,
                   expectedReplies, onData, waits, micro, cwait, echo, wire, delivered,
                   nchunks, nsets,
                   trace, calls, disc,
                   evals>>

(* The open callback of the SerialPort created by _connectAtBaudRate. *)
ProbeOpenCb(err) ==
    /\ micro = 0
    /\ cpc = "opening"
    /\ IF err
       THEN /\ RejectAttempt(SetPort(ports, port, "failed"), Append(log, Ev("openfail", port)))
            /\ UNCHANGED <<wire, waits, onData, cwait>>
       ELSE IF options.auto
            THEN StartQuery(SetPort(ports, port, "open"), Append(log, Ev("opened", port)))
            ELSE /\ ports' = SetPort(ports, port, "open")
                 /\ log' = Append(log, Ev("opened", port))
                 /\ cpc' = "sleep200"
                 /\ UNCHANGED <<port, crate, currentBaudRate, wire, waits, onData, cwait>>
    /\ UNCHANGED <<options, devCode, isConnected, inputBuffer, bufferTimeout, timers, deviceInfo,
                   expectedReplies, micro, echo, delivered, nchunks, nsets,
                   trace, calls, disc,
                   evals>>

(* End of the 200 ms stabilisation sleep of a direct connection. *)
ProbeSleepDone ==
    /\ micro = 0
    /\ cpc = "sleep200"
    /\ StartQuery(ports, log)
    /\ UNCHANGED <<options, devCode, isConnected, inputBuffer, bufferTimeout, timers, deviceInfo,
                   expectedReplies, micro, echo, delivered, nchunks, nsets,
                   trace, calls, disc,
                   evals>>

(* Continuation of _connectAtBaudRate after _queryDevice returned. *)
(* Variant: the identified terminal's screen is not cleared. *)
QueryReturned_NoClear(w) ==
    /\ cpc = "querying"
    /\ cwait = w
    /\ LET info == IF waits[w].st = "resolved"
                   THEN parseDeviceIdentification(waits[w].responseData)
                   ELSE NullInfo
       IN IF info # NullInfo
          THEN /\ deviceInfo' = info
               /\ isConnected' = TRUE
               /\ wire' = wire
               /\ cpc' = "clear_write"
               /\ log' = Append(Append(log, Ev("ident", port)), Ev("clear", port))
               /\ UNCHANGED <<ports, port, crate, currentBaudRate>>
          ELSE /\ RejectAttempt(ports, Append(log, Ev("noreply", port)))
               /\ UNCHANGED <<deviceInfo, isConnected, wire>>
    /\ UNCHANGED <<cwait, echo>>

QueryReturned(w) ==
    /\ cpc = "querying"
    /\ cwait = w
    /\ LET info == IF waits[w].st = "resolved"
                   THEN parseDeviceIdentification(waits[w].responseData)
                   ELSE NullInfo
       IN IF info # NullInfo
          THEN /\ deviceInfo' = info
               /\ isConnected' = TRUE
               /\ wire' = PortWrite(ports, ClearCmd)
               /\ cpc' = "clear_write"
               /\ log' = Append(Append(log, Ev("ident", port)), Ev("clear", port))
               /\ UNCHANGED <<ports, port, crate, currentBaudRate>>
          ELSE /\ RejectAttempt(ports, Append(log, Ev("noreply", port)))
               /\ UNCHANGED <<deviceInfo, isConnected, wire>>
    /\ UNCHANGED <<cwait, echo>>

(* The write callback of clear() in _connectAtBaudRate. *)
ClearWriteCb(err) ==
    /\ micro = 0
    /\ cpc = "clear_write"
    /\ IF err
       THEN RejectAttempt(ports, Append(log, Ev("clearfail", port)))
       ELSE /\ PortIsOpen(ports, port)
            /\ cpc' = "clear_drain"
            /\ UNCHANGED <<ports, port, crate, currentBaudRate, log>>
    /\ UNCHANGED <<options, devCode, isConnected, inputBuffer, bufferTimeout, timers, deviceInfo,
                   expectedReplies, onData, waits, micro, cwait, echo, wire, delivered,
                   nchunks, nsets,
                   trace, calls, disc,
                   evals>>

(* The drain callback of clear(): the upgrade decision, then either the     *)
(* write of the speed-change command by _upgradeSpeed or resolve().         *)
ClearDrainCb ==
    /\ micro = 0
    /\ cpc = "clear_drain"
    /\ IF UpgradeWanted(deviceInfo)
       THEN IF speedCodes(deviceInfo.maxSpeed) = 0 \/ ~isConnected
            THEN /\ cpc' = "done"
                 /\ log' = Append(Append(log, Ev("upgfail", port)), Ev("resolve", port))
                 /\ wire' = wire
            ELSE /\ cpc' = "upg_write"
                 /\ log' = Append(log, Ev("speedcmd", port))
                 /\ wire' = PortWrite(ports, SpeedCmd(deviceInfo.maxSpeed))
       ELSE /\ cpc' = "done"
            /\ log' = Append(log, Ev("resolve", port))
            /\ wire' = wire
    /\ UNCHANGED <<options, devCode, ports, port, isConnected, inputBuffer, bufferTimeout, timers,
                   deviceInfo, currentBaudRate, expectedReplies, onData, waits, micro,
                   crate, cwait, echo, delivered, nchunks, nsets,
                   trace, calls, disc,
                   evals>>

(* The write callback of the speed-change command. *)
UpgWriteCb(err) ==
    /\ micro = 0
    /\ cpc = "upg_write"
    /\ IF err
       THEN /\ cpc' = "done"
            /\ log' = Append(Append(log, Ev("upgfail", port)), Ev("resolve", port))
       ELSE /\ PortIsOpen(ports, port)
            /\ cpc' = "upg_drain"
            /\ log' = log
    /\ UNCHANGED <<options, devCode, ports, port, isConnected, inputBuffer, bufferTimeout, timers,
                   deviceInfo, currentBaudRate, expectedReplies, onData, waits, micro,
                   crate, cwait, echo, wire, delivered, nchunks, nsets,
                   trace, calls, disc,
                   evals>>

(* The drain callback of the speed-change command: start the 300 ms sleep. *)
UpgDrainCb ==
    /\ micro = 0
    /\ cpc = "upg_drain"
    /\ cpc' = "upg_sleep300"
    /\ UNCHANGED <<options, devCode, ports, port, isConnected, inputBuffer, bufferTimeout, timers,
                   deviceInfo, currentBaudRate, expectedReplies, onData, waits, micro,
                   crate, cwait, echo, wire, delivered, log, nchunks, nsets,
                   trace, calls, disc,
                   evals>>

(* _upgradeSpeed after _closePort: set the speed and create the new port. *)
Reopen(ps, lg) ==
    /\ currentBaudRate' = deviceInfo.maxSpeed
    /\ ports' = NewPort(ps, deviceInfo.maxSpeed, "upgrade")
    /\ port' = Len(ps) + 1
    /\ cpc' = "upg_opening"
    /\ log' = Append(lg, Ev("reopen", Len(ps) + 1))

(* End of the 300 ms sleep: _closePort. *)
UpgSleep300Done ==
    /\ micro = 0
    /\ cpc = "upg_sleep300"
    /\ IF PortIsOpen(ports, port)
       THEN /\ ports' = SetPort(ports, port, "closing")
            /\ cpc' = "upg_closing"
            /\ log' = Append(log, Ev("close", port))
            /\ UNCHANGED <<port, currentBaudRate>>
       ELSE Reopen(ports, log)
    /\ UNCHANGED <<options, devCode, isConnected, inputBuffer, bufferTimeout, timers, deviceInfo,
                   expectedReplies, onData, waits, micro, crate, cwait, echo, wire,
                   delivered, nchunks, nsets,
                   trace, calls, disc,
                   evals>>

(* The close callback of _closePort inside _upgradeSpeed. *)
UpgCloseCb ==
    /\ micro = 0
    /\ cpc = "upg_closing"
    /\ Reopen(SetPort(ports, port, "closed"), Append(log, Ev("closed", port)))
    /\ UNCHANGED <<options, devCode, isConnected, inputBuffer, bufferTimeout, timers, deviceInfo,
                   expectedReplies, onData, waits, micro, crate, cwait, echo, wire,
                   delivered, nchunks, nsets,
                   trace, calls, disc,
                   evals>>

(* The open callback of the SerialPort created by _upgradeSpeed. *)
UpgOpenCb(err) ==
    /\ micro = 0
    /\ cpc = "upg_opening"
    /\ IF err
       THEN /\ ports' = SetPort(ports, port, "failed")
            /\ cpc' = "done"
            /\ log' = Append(Append(Append(log, Ev("openfail", port)),
                                    Ev("upgfail", port)), Ev("resolve", port))
       ELSE /\ ports' = SetPort(ports, port, "open")
            /\ cpc' = "upg_sleep200"
            /\ log' = Append(log, Ev("opened", port))
    /\ UNCHANGED <<options, devCode, port, isConnected, inputBuffer, bufferTimeout, timers,
                   deviceInfo, currentBaudRate, expectedReplies, onData, waits, micro,
                   crate, cwait, echo, wire, delivered, nchunks, nsets,
                   trace, calls, disc,
                   evals>>

(* End of the 200 ms sleep after the reopen: _upgradeSpeed resolves. *)
UpgSleep200Done ==
    /\ micro = 0
    /\ cpc = "upg_sleep200"
    /\ cpc' = "done"
    /\ log' = Append(Append(log, Ev("upgraded", port)), Ev("resolve", port))
    /\ UNCHANGED <<options, devCode, ports, port, isConnected, inputBuffer, bufferTimeout, timers,
                   deviceInfo, currentBaudRate, expectedReplies, onData, waits, micro,
                   crate, cwait, echo, wire, delivered, nchunks, nsets,
                   trace, calls, disc,
                   evals>>

(* The close callback of _closePort in the catch block of connect(). *)
ProbeCloseCb ==
    /\ micro = 0
    /\ cpc = "closing"
    /\ NextCandidate(SetPort(ports, port, "closed"), Append(log, Ev("closed", port)))
    /\ UNCHANGED <<options, devCode, isConnected, inputBuffer, bufferTimeout, timers, deviceInfo,
                   expectedReplies, onData, waits, micro, cwait, echo, wire, delivered,
                   nchunks, nsets,
                   trace, calls, disc,
                   evals>>

(* ------------------------------------------------------------------------ *)
(* Reply waits (_waitForResponse) and the input framer (handleInputData)    *)
(* ------------------------------------------------------------------------ *)

(* The timer of wait w fires: cleanup(), then reject. *)
WaitTimeout(w) ==
    /\ micro = 0
    /\ w \in DOMAIN waits
    /\ waits[w].timer
    /\ waits' = [waits EXCEPT ![w].timer = FALSE,
                              ![w].st = IF @ = "pending" THEN "rejected" ELSE @]
    /\ onData' = Cleanup(w)
    /\ micro' = IF waits[w].st = "pending" THEN w ELSE 0
    /\ UNCHANGED <<options, devCode, ports, port, isConnected, inputBuffer, bufferTimeout, timers,
                   deviceInfo, currentBaudRate, expectedReplies, cpc, crate, cwait, echo,
                   wire, delivered, log, nchunks, nsets,
                   trace, calls, disc,
                   evals>>

(* this.onData(data): an application callback records the event; the        *)
(* handler installed by wait w accumulates it and tests the predicate on    *)
(* everything accumulated so far.                                           *)
InvokeOnData(data) ==
    IF onData.kind = "app"
    THEN /\ delivered' = Append(delivered, [cb |-> onData.id, data |-> data])
         /\ UNCHANGED <<onData, waits, micro>>
    ELSE LET w == onData.id
             buffer == waits[w].responseData \o data
         IN /\ delivered' = delivered
            /\ IF Predicate(waits[w].predicate, buffer)
               THEN /\ waits' = [waits EXCEPT ![w].responseData = buffer,
                                              ![w].timer = FALSE,
                                              ![w].st = IF @ = "pending" THEN "resolved" ELSE @]
                    /\ onData' = Cleanup(w)
                    /\ micro' = IF waits[w].st = "pending" THEN w ELSE 0
               ELSE /\ waits' = [waits EXCEPT ![w].responseData = buffer]
                    /\ UNCHANGED <<onData, micro>>

(* Index of the first entry of expectedReplies whose predicate accepts data, *)
(* 0 if there is none.                                                       *)
FirstExpected(data) ==
    LET M == {i \in DOMAIN expectedReplies : Predicate(expectedReplies[i].predicate, data)}
    IN IF M = {} THEN 0 ELSE CHOOSE i \in M : \A j \in M : i <= j

RemoveAt(q, i) == [j \in 1..(Len(q) - 1) |-> IF j < i THEN q[j] ELSE q[j + 1]]

(* Variant: a chunk arms a timer without cancelling the previous one. *)
HandleInputData_NoCancel(p, chunk) ==
    /\ micro = 0
    /\ nchunks < MaxChunks
    /\ p \in DOMAIN ports
    /\ ports[p].st = "open"
    /\ nchunks' = nchunks + 1
    /\ inputBuffer' = inputBuffer \o chunk
    /\ timers' = timers \cup {nchunks + 1}
    /\ bufferTimeout' = nchunks + 1
    /\ trace' = Append(trace, [op |-> "rx", data |-> chunk])
    /\ UNCHANGED <<options, devCode, ports, port, isConnected, deviceInfo, currentBaudRate,
                   expectedReplies, onData, waits, micro, cpc, crate, cwait, echo, wire,
                   delivered, log, nsets,
                   calls, disc,
                   evals>>

(* Variant: the new bytes replace the accumulator. *)
HandleInputData_Overwrite(p, chunk) ==
    /\ micro = 0
    /\ nchunks < MaxChunks
    /\ p \in DOMAIN ports
    /\ ports[p].st = "open"
    /\ nchunks' = nchunks + 1
    /\ inputBuffer' = chunk
    /\ timers' = (IF bufferTimeout # 0 THEN timers \ {bufferTimeout} ELSE timers)
                   \cup {nchunks + 1}
    /\ bufferTimeout' = nchunks + 1
    /\ trace' = Append(trace, [op |-> "rx", data |-> chunk])
    /\ UNCHANGED <<options, devCode, ports, port, isConnected, deviceInfo, currentBaudRate,
                   expectedReplies, onData, waits, micro, cpc, crate, cwait, echo, wire,
                   delivered, log, nsets,
                   calls, disc,
                   evals>>

(* A 'data' event of an open port: handleInputData up to the timer restart. *)
HandleInputData(p, chunk) ==
    /\ micro = 0
    /\ nchunks < MaxChunks
    /\ p \in DOMAIN ports
    /\ ports[p].st = "open"
    /\ nchunks' = nchunks + 1
    /\ inputBuffer' = inputBuffer \o chunk
    /\ timers' = (IF bufferTimeout # 0 THEN timers \ {bufferTimeout} ELSE timers)
                   \cup {nchunks + 1}
    /\ bufferTimeout' = nchunks + 1
    /\ trace' = Append(trace, [op |-> "rx", data |-> chunk])
    /\ UNCHANGED <<options, devCode, ports, port, isConnected, deviceInfo, currentBaudRate,
                   expectedReplies, onData, waits, micro, cpc, crate, cwait, echo, wire,
                   delivered, log, nsets,
                   calls, disc,
                   evals>>

(* Variant: the flush leaves the accumulator as it is. *)
BufferTimeoutFire_KeepsBuffer ==
    /\ micro = 0
    /\ \E t \in timers : timers' = timers \ {t}
    /\ IF Len(inputBuffer) > 0
       THEN /\ inputBuffer' = inputBuffer
            /\ LET i == FirstExpected(inputBuffer)
               IN IF i # 0
                  THEN /\ expectedReplies' = RemoveAt(expectedReplies, i)
                       /\ waits' = [waits EXCEPT ![expectedReplies[i].wait].timer = FALSE,
                                                 ![expectedReplies[i].wait].st = "resolved",
                                                 ![expectedReplies[i].wait].responseData = inputBuffer]
                       /\ micro' = expectedReplies[i].wait
                       /\ UNCHANGED <<onData, delivered>>
                  ELSE /\ expectedReplies' = expectedReplies
                       /\ InvokeOnData(inputBuffer)
       ELSE UNCHANGED <<inputBuffer, expectedReplies, onData, waits, micro, delivered>>
    /\ trace' = IF Len(inputBuffer) > 0
                THEN Append(trace, [op |-> "flush", data |-> inputBuffer])
                ELSE trace
    /\ UNCHANGED <<options, devCode, ports, port, isConnected, bufferTimeout, deviceInfo,
                   currentBaudRate,
                   cpc, crate, cwait, echo, wire, log, nchunks, nsets,
                   calls, disc,
                   evals>>

(* The inactivity timer of handleInputData fires: flush the accumulator. *)
BufferTimeoutFire ==
    /\ micro = 0
    /\ \E t \in timers : timers' = timers \ {t}
    /\ IF Len(inputBuffer) > 0
       THEN /\ inputBuffer' = <<>>
            /\ LET i == FirstExpected(inputBuffer)
               IN IF i # 0
                  THEN /\ expectedReplies' = RemoveAt(expectedReplies, i)
                       /\ waits' = [waits EXCEPT ![expectedReplies[i].wait].timer = FALSE,
                                                 ![expectedReplies[i].wait].st = "resolved",
                                                 ![expectedReplies[i].wait].responseData = inputBuffer]
                       /\ micro' = expectedReplies[i].wait
                       /\ UNCHANGED <<onData, delivered>>
                  ELSE /\ expectedReplies' = expectedReplies
                       /\ InvokeOnData(inputBuffer)
       ELSE UNCHANGED <<inputBuffer, expectedReplies, onData, waits, micro, delivered>>
    /\ trace' = IF Len(inputBuffer) > 0
                THEN Append(trace, [op |-> "flush", data |-> inputBuffer])
                ELSE trace
    /\ UNCHANGED <<options, devCode, ports, port, isConnected, bufferTimeout, deviceInfo,
                   currentBaudRate,
                   cpc, crate, cwait, echo, wire, log, nchunks, nsets,
                   calls, disc,
                   evals>>

(* Variant: the timeout of the acknowledgment wait rejects disableLocalEcho. *)
RunContinuation_SurfaceTimeout ==
    /\ micro # 0
    /\ micro' = 0
    /\ IF waits[micro].owner = 0
       THEN QueryReturned(micro)
       ELSE /\ echo' = [echo EXCEPT ![waits[micro].owner].pc =
                            IF waits[micro].st = "rejected" THEN "failed" ELSE "done"]
            /\ UNCHANGED <<ports, port, isConnected, deviceInfo, currentBaudRate, cpc, crate,
                           cwait, wire, log>>
    /\ UNCHANGED <<options, devCode, inputBuffer, bufferTimeout, timers, expectedReplies, onData,
                   waits, delivered,
                   trace, calls, disc, nchunks, nsets,
                   evals>>

(* The microtask that resumes the task suspended on wait w. *)
RunContinuation ==
    /\ micro # 0
    /\ micro' = 0
    /\ IF waits[micro].owner = 0
       THEN QueryReturned(micro)
       ELSE /\ echo' = [echo EXCEPT ![waits[micro].owner].pc = "done"]
            /\ UNCHANGED <<ports, port, isConnected, deviceInfo, currentBaudRate, cpc, crate,
                           cwait, wire, log>>
    /\ UNCHANGED <<options, devCode, inputBuffer, bufferTimeout, timers, expectedReplies, onData,
                   waits, delivered, nchunks, nsets,
                   trace, calls, disc,
                   evals>>

(* ------------------------------------------------------------------------ *)
(* Application calls                                                        *)
(* ------------------------------------------------------------------------ *)

(* minitel.onData = callback *)
AppSetOnData ==
    /\ micro = 0
    /\ nsets < MaxSets
    /\ nsets' = nsets + 1
    /\ onData' = AppHandler(nsets + 1)
    /\ UNCHANGED <<options, devCode, ports, port, isConnected, inputBuffer, bufferTimeout, timers,
                   deviceInfo, currentBaudRate, expectedReplies, waits, micro, cpc, crate,
                   cwait, echo, wire, delivered, log, nchunks,
                   trace, calls, disc,
                   evals>>

(* disableLocalEcho(): write() of the routing command. *)
DisableLocalEchoCall(k) ==
    /\ micro = 0
    /\ echo[k].pc = "idle"
    /\ IF k = 1 THEN TRUE ELSE echo[k - 1].pc # "idle"
    /\ IF ~isConnected
       THEN /\ echo' = [echo EXCEPT ![k].pc = "failed"]
            /\ wire' = wire
       ELSE /\ echo' = [echo EXCEPT ![k].pc = "write", ![k].sent = PortIsOpen(ports, port)]
            /\ wire' = PortWrite(ports, EchoOffCmd)
    /\ UNCHANGED <<options, devCode, ports, port, isConnected, inputBuffer, bufferTimeout, timers,
                   deviceInfo, currentBaudRate, expectedReplies, onData, waits, micro, cpc,
                   crate, cwait, delivered, log, nchunks, nsets,
                   trace, calls, disc,
                   evals>>

(* The write callback of disableLocalEcho's command. *)
EchoWriteCb(k, err) ==
    /\ micro = 0
    /\ echo[k].pc = "write"
    /\ IF err
       THEN echo' = [echo EXCEPT ![k].pc = "failed"]
       ELSE /\ echo[k].sent
            /\ echo' = [echo EXCEPT ![k].pc = "drain"]
    /\ UNCHANGED <<options, devCode, ports, port, isConnected, inputBuffer, bufferTimeout, timers,
                   deviceInfo, currentBaudRate, expectedReplies, onData, waits, micro, cpc,
                   crate, cwait, wire, delivered, log, nchunks, nsets,
                   trace, calls, disc,
                   evals>>

(* The drain callback: disableLocalEcho registers its wait for the          *)
(* acknowledgment.                                                          *)
EchoDrainCb(k) ==
    /\ micro = 0
    /\ echo[k].pc = "drain"
    /\ waits' = Append(waits, NewWait("ack", EchoTimeout, k))
    /\ onData' = WaitHandler(Len(waits) + 1)
    /\ echo' = [echo EXCEPT ![k].pc = "wait", ![k].wait = Len(waits) + 1]
    /\ UNCHANGED <<options, devCode, ports, port, isConnected, inputBuffer, bufferTimeout, timers,
                   deviceInfo, currentBaudRate, expectedReplies, micro, cpc, crate, cwait,
                   wire, delivered, log, nchunks, nsets,
                   trace, calls, disc,
                   evals>>

(* ------------------------------------------------------------------------ *)
(* The facade's send operations, all built on write()                       *)
(* ------------------------------------------------------------------------ *)

(* Variant: row 25 passes the test. *)
moveCursorAccepts_OffByOne(row, col) == ~(row < 0 \/ row > 25 \/ col < 1 \/ col > 40)

(* The test of moveCursor: the position is not rejected. *)
moveCursorAccepts(row, col) == ~(row < 0 \/ row > 24 \/ col < 1 \/ col > 40)

(* The buffer moveCursor writes. *)
moveCursorBytes(row, col) == <<US, CURSOR_OFFSET + row, CURSOR_OFFSET + col>>

(* The text of the printAt calls considered. *)
SampleText == <<ChA, ChB>>

(* The calls the application may make: beep(), printAt(row, col, text), and *)
(* moveCursor(row, col) around the limits of the grid.                      *)
SendCalls ==
    {[op |-> "beep", row |-> 0, col |-> 0],
     [op |-> "printAt", row |-> 1, col |-> 1, text |-> SampleText]}

CursorCalls == [op : {"moveCursor"}, row : {-1, 0, 24, 25}, col : {0, 1, 40, 41}]

(* writeRepeated(char, count) with 'A' and 'e acute', the counts around the *)
(* limits of each branch.                                                   *)
RepeatChars == {ChA, 233}
RepeatCounts == {-1, 0, 1, 3, 4, 64, 65, 68, 128, 130}
RepeatCalls == [op : {"writeRepeated"}, char : RepeatChars, count : RepeatCounts]

(* writeText(text): the empty string, the ASCII characters in two halves,   *)
(* and texts mixing ASCII, table and unknown characters.                    *)
SampleTexts ==
    {<<>>, [i \in 1..64 |-> i - 1], [i \in 1..64 |-> i + 63],
     <<233, ChA, 8364, 339>>, <<ChB, 128512, 233>>}
TextCalls == [op : {"writeText"}, text : SampleTexts]

(* printAt(row, col, text) inside and outside the grid. *)
PrintCalls ==
    [op : {"printAt"}, row : {0, 1, 25}, col : {0, 1}, text : {<<ChB, 233>>}]

(* setFormat(name) *)
FormatCalls == [op : {"setFormat"}, name : SetFormatNames]

(* Variant: printAt writes the text before it places the cursor. *)
Parts_TextFirst(c) ==
    CASE c.op = "printAt" -> << writeTextBytes(c.text), moveCursorBytes(c.row, c.col) >>
      [] c.op = "writeText" -> << writeTextBytes(c.text) >>

(* The buffers a call passes to write(), one after the other. *)
Parts(c) ==
    CASE c.op = "beep" -> << <<BEL>> >>
      [] c.op = "moveCursor" -> << moveCursorBytes(c.row, c.col) >>
      [] c.op = "printAt" -> << moveCursorBytes(c.row, c.col), writeTextBytes(c.text) >>
      [] c.op = "writeText" -> << writeTextBytes(c.text) >>
      [] c.op = "writeRepeated" -> writeRepeatedParts(c.char, c.count)
      [] c.op = "setFormat" ->
            << BufferFrom(<<ESC, formatCodes(toLowerCase(c.name)).byte>>) >>

(* The call throws before it reaches write(). *)
Invalid(c) ==
    CASE c.op \in {"moveCursor", "printAt"} -> ~moveCursorAccepts(c.row, c.col)
      [] c.op = "setFormat" -> formatCodes(toLowerCase(c.name)).undefined
      [] OTHER -> FALSE

(* write(data) made by task k: throw when not connected, else hand the      *)
(* bytes to the port.                                                       *)
write(k, cs, data) ==
    IF ~isConnected
    THEN /\ calls' = [cs EXCEPT ![k].pc = "failed", ![k].err = "notconnected"]
         /\ wire' = wire
    ELSE /\ calls' = [cs EXCEPT ![k].pc = "write",
                                ![k].sent = PortIsOpen(ports, port),
                                ![k].w = IF PortIsOpen(ports, port)
                                         THEN Append(@, Len(wire) + 1) ELSE @]
         /\ wire' = PortWrite(ports, data)

(* The application calls a send operation of the facade. *)
FacadeCall(c) ==
    /\ micro = 0
    /\ Len(calls) < MaxCalls
    /\ LET k == Len(calls) + 1
           task == c @@ [pc |-> "called", err |-> "none", parts |-> <<>>,
                         w |-> <<>>, sent |-> FALSE]
       IN IF Invalid(c)
          THEN /\ calls' = Append(calls, [task EXCEPT !.pc = "failed",
                                                      !.err = "validation"])
               /\ wire' = wire
          ELSE IF Parts(c) = <<>>
          THEN /\ calls' = Append(calls, [task EXCEPT !.pc = "done"])
               /\ wire' = wire
          ELSE write(k, Append(calls, [task EXCEPT !.parts = Tail(Parts(c))]),
                     Head(Parts(c)))
    /\ UNCHANGED <<options, devCode, ports, port, isConnected, inputBuffer, bufferTimeout, timers,
                   deviceInfo, currentBaudRate, expectedReplies, onData, waits, micro,
                   cpc, crate, cwait, echo, delivered, trace, disc, log, nchunks, nsets,
                   evals>>

(* The write callback of task k's current buffer. *)
FacadeWriteCb(k, err) ==
    /\ micro = 0
    /\ k \in DOMAIN calls
    /\ calls[k].pc = "write"
    /\ IF err
       THEN calls' = [calls EXCEPT ![k].pc = "failed", ![k].err = "write"]
       ELSE /\ calls[k].sent
            /\ calls' = [calls EXCEPT ![k].pc = "drain"]
    /\ UNCHANGED <<options, devCode, ports, port, isConnected, inputBuffer, bufferTimeout, timers,
                   deviceInfo, currentBaudRate, expectedReplies, onData, waits, micro,
                   cpc, crate, cwait, echo, wire, delivered, trace, disc, log, nchunks,
                   nsets,
                   evals>>

(* The drain callback: the write() promise resolves; a multi-part call goes *)
(* on with its next write().                                                *)
FacadeDrainCb(k) ==
    /\ micro = 0
    /\ k \in DOMAIN calls
    /\ calls[k].pc = "drain"
    /\ IF calls[k].parts = <<>>
       THEN /\ calls' = [calls EXCEPT ![k].pc = "done"]
            /\ wire' = wire
       ELSE write(k, [calls EXCEPT ![k].parts = Tail(@)], Head(calls[k].parts))
    /\ UNCHANGED <<options, devCode, ports, port, isConnected, inputBuffer, bufferTimeout, timers,
                   deviceInfo, currentBaudRate, expectedReplies, onData, waits, micro,
                   cpc, crate, cwait, echo, delivered, trace, disc, log, nchunks, nsets,
                   evals>>

(* ------------------------------------------------------------------------ *)
(* disconnect()                                                             *)
(* ------------------------------------------------------------------------ *)

(* Variant: disconnect() closes the port whatever its state. *)
DisconnectCall_AlwaysCloses ==
    /\ micro = 0
    /\ disc.n < MaxDisconnects
    /\ port # 0
    /\ ports' = SetPort(ports, port, "closing")
    /\ disc' = [disc EXCEPT !.n = @ + 1, !.closing = @ \cup {port}]
    /\ UNCHANGED <<options, devCode, port, isConnected, inputBuffer, bufferTimeout, timers,
                   deviceInfo, currentBaudRate, expectedReplies, onData, waits, micro,
                   cpc, crate, cwait, echo, wire, delivered, trace, calls, log, nchunks,
                   nsets,
                   evals>>

(* disconnect(): close the port if it is open, else return at once. *)
DisconnectCall ==
    /\ micro = 0
    /\ disc.n < MaxDisconnects
    /\ IF PortIsOpen(ports, port)
       THEN /\ ports' = SetPort(ports, port, "closing")
            /\ disc' = [disc EXCEPT !.n = @ + 1, !.closing = @ \cup {port}]
       ELSE /\ ports' = ports
            /\ disc' = [disc EXCEPT !.n = @ + 1, !.done = @ + 1]
    /\ UNCHANGED <<options, devCode, port, isConnected, inputBuffer, bufferTimeout, timers,
                   deviceInfo, currentBaudRate, expectedReplies, onData, waits, micro,
                   cpc, crate, cwait, echo, wire, delivered, trace, calls, log, nchunks,
                   nsets,
                   evals>>

(* The close callback of disconnect(). *)
DisconnectCloseCb(p) ==
    /\ micro = 0
    /\ p \in disc.closing
    /\ ports' = SetPort(ports, p, "closed")
    /\ isConnected' = FALSE
    /\ disc' = [disc EXCEPT !.done = @ + 1, !.closing = @ \ {p}]
    /\ UNCHANGED <<options, devCode, port, inputBuffer, bufferTimeout, timers, deviceInfo,
                   currentBaudRate, expectedReplies, onData, waits, micro, cpc, crate,
                   cwait, echo, wire, delivered, trace, calls, log, nchunks, nsets,
                   evals>>

(* ------------------------------------------------------------------------ *)
(* Applications of the static functions                                     *)
(* ------------------------------------------------------------------------ *)

(* The characters considered: all of ASCII, every key of accentMap, and     *)
(* characters above ASCII that the table lacks (the last one outside the    *)
(* Basic Multilingual Plane).                                               *)
TableChars == {char \in 128..8600 : accentMap(char) # <<>>}
Chars == (0..127) \cup TableChars \cup {128, 160, 227, 255, 256, 8364, 65535, 128512}

(* The byte sequences given to parseFunctionKey: every sequence of at most  *)
(* three bytes over the prefix, a key code and a null byte.                 *)
KeyBytes == {FUNCTION_KEY_PREFIX, ChA, 0}
KeyData ==
    {<<>>} \cup {<<a>> : a \in KeyBytes}
           \cup {<<a, b>> : a \in KeyBytes, b \in KeyBytes}
           \cup {<<a, b, c>> : a \in KeyBytes, b \in KeyBytes, c \in KeyBytes}

(* Minitel.charToMinitel(char) *)
EvalCharToMinitel(char) ==
    /\ micro = 0
    /\ Len(evals) < MaxEvals
    /\ evals' = Append(evals, [fn |-> "charToMinitel", arg |-> char,
                               result |-> charToMinitel(char)])
    /\ UNCHANGED <<options, devCode, ports, port, isConnected, inputBuffer, bufferTimeout, timers,
                   deviceInfo, currentBaudRate, expectedReplies, onData, waits, micro,
                   cpc, crate, cwait, echo, wire, delivered, trace, calls, disc, log,
                   nchunks, nsets>>

(* Minitel.parseFunctionKey(data) *)
EvalParseFunctionKey(data) ==
    /\ micro = 0
    /\ Len(evals) < MaxEvals
    /\ evals' = Append(evals, [fn |-> "parseFunctionKey", arg |-> data,
                               result |-> parseFunctionKey(data)])
    /\ UNCHANGED <<options, devCode, ports, port, isConnected, inputBuffer, bufferTimeout, timers,
                   deviceInfo, currentBaudRate, expectedReplies, onData, waits, micro,
                   cpc, crate, cwait, echo, wire, delivered, trace, calls, disc, log,
                   nchunks, nsets>>

(* What the terminal can send in one chunk. *)
Chunks == {IdReply(devCode), AckReply, Garbage}
NegChunks == {IdReply(devCode), Garbage}

(* The negotiation: connect() against a terminal that may or may not answer. *)
Negotiation ==
    \/ ConnectCall
    \/ \E err \in BOOLEAN : ProbeOpenCb(err)
    \/ ProbeSleepDone
    \/ \E err \in BOOLEAN : ClearWriteCb(err)
    \/ ClearDrainCb
    \/ \E err \in BOOLEAN : UpgWriteCb(err)
    \/ UpgDrainCb
    \/ UpgSleep300Done
    \/ UpgCloseCb
    \/ \E err \in BOOLEAN : UpgOpenCb(err)
    \/ UpgSleep200Done
    \/ ProbeCloseCb

Next ==
    \/ Negotiation
    \/ \E w \in DOMAIN waits : WaitTimeout(w)
    \/ \E p \in DOMAIN ports : \E chunk \in NegChunks : HandleInputData(p, chunk)
    \/ BufferTimeoutFire
    \/ RunContinuation

Spec == Init /\ [][Next]_vars

(* The negotiation under the scheduling of the event loop: a transport      *)
(* callback that is due is eventually called, an armed timer eventually     *)
(* fires, a pending microtask eventually runs.                               *)
SpecFair ==
    /\ Spec
    /\ WF_vars(Negotiation)
    /\ WF_vars(\E w \in DOMAIN waits : WaitTimeout(w))
    /\ WF_vars(RunContinuation)

(* A session at a fixed speed without upgrade, with the application calling *)
(* the driver while connect() and earlier calls are still in progress.      *)
InitSession ==
    /\ Init
    /\ options = [auto |-> FALSE, baudRate |-> 1200, autoUpgradeSpeed |-> FALSE]
    /\ devCode = <<ChC, Chv>>

NextSession ==
    \/ ConnectCall
    \/ \E err \in BOOLEAN : ProbeOpenCb(err)
    \/ ProbeSleepDone
    \/ \E err \in BOOLEAN : ClearWriteCb(err)
    \/ ClearDrainCb
    \/ \E w \in DOMAIN waits : WaitTimeout(w)
    \/ \E p \in DOMAIN ports : \E chunk \in Chunks : HandleInputData(p, chunk)
    \/ BufferTimeoutFire
    \/ RunContinuation
    \/ AppSetOnData
    \/ \E k \in 1..MaxEcho : DisableLocalEchoCall(k)
    \/ \E k \in 1..MaxEcho : \E err \in BOOLEAN : EchoWriteCb(k, err)
    \/ \E k \in 1..MaxEcho : EchoDrainCb(k)

SpecSession == InitSession /\ [][NextSession]_vars

(* connect() called again once the previous call has returned, whatever the *)
(* state it left; allowed while fewer than MaxPorts ports were created.     *)
ReconnectCall ==
    /\ micro = 0
    /\ cpc \in {"done", "failed"}
    /\ Len(ports) < MaxPorts
    /\ crate' = IF options.auto THEN 1 ELSE 0
    /\ currentBaudRate' = IF options.auto THEN baudRates[1] ELSE options.baudRate
    /\ ports' = NewPort(ports, currentBaudRate', "probe")
    /\ port' = Len(ports) + 1
    /\ cpc' = "opening"
    /\ log' = <<Ev("open", Len(ports) + 1)>>
    /\ UNCHANGED <<options, devCode, isConnected, inputBuffer, bufferTimeout, timers, deviceInfo,
                   expectedReplies, onData, waits, micro, cwait, echo, wire, delivered,
                   trace, calls, disc, nchunks, nsets,
                   evals>>

(* The life of the link: connect() with its negotiation, disconnect() at    *)
(* any point, and connect() again.                                          *)
NextLink ==
    \/ Negotiation
    \/ \E w \in DOMAIN waits : WaitTimeout(w)
    \/ \E p \in DOMAIN ports : HandleInputData(p, IdReply(devCode))
    \/ BufferTimeoutFire
    \/ RunContinuation
    \/ DisconnectCall
    \/ \E p \in DOMAIN ports : DisconnectCloseCb(p)
    \/ ReconnectCall

SpecLink == Init /\ [][NextLink]_vars

(* Auto-detection against a terminal that sends garbage while probed at    *)
(* the first candidate speed and its identification at the later ones.      *)
InitLeftover == Init /\ options.auto

NextLeftover ==
    \/ ConnectCall
    \/ \E err \in BOOLEAN : ProbeOpenCb(err)
    \/ \E err \in BOOLEAN : ClearWriteCb(err)
    \/ ClearDrainCb
    \/ \E err \in BOOLEAN : UpgWriteCb(err)
    \/ UpgDrainCb
    \/ UpgSleep300Done
    \/ UpgCloseCb
    \/ \E err \in BOOLEAN : UpgOpenCb(err)
    \/ UpgSleep200Done
    \/ ProbeCloseCb
    \/ \E w \in DOMAIN waits : WaitTimeout(w)
    \/ HandleInputData(1, Garbage)
    \/ \E p \in DOMAIN ports : p > 1 /\ HandleInputData(p, IdReply(devCode))
    \/ BufferTimeoutFire
    \/ RunContinuation

SpecLeftover == InitLeftover /\ [][NextLeftover]_vars

(* disableLocalEcho() calls, possibly overlapping, once connect() at a      *)
(* fixed speed has succeeded; the terminal may or may not acknowledge.      *)
NextEcho ==
    \/ ConnectCall
    \/ \E err \in BOOLEAN : ProbeOpenCb(err)
    \/ ProbeSleepDone
    \/ \E err \in BOOLEAN : ClearWriteCb(err)
    \/ ClearDrainCb
    \/ \E w \in DOMAIN waits : WaitTimeout(w)
    \/ \E p \in DOMAIN ports : \E chunk \in Chunks : HandleInputData(p, chunk)
    \/ BufferTimeoutFire
    \/ RunContinuation
    \/ \E k \in 1..MaxEcho : cpc = "done" /\ DisableLocalEchoCall(k)
    \/ \E k \in 1..MaxEcho : \E err \in BOOLEAN : EchoWriteCb(k, err)
    \/ \E k \in 1..MaxEcho : EchoDrainCb(k)

SpecEcho == InitSession /\ [][NextEcho]_vars

(* disconnect() at any point of a connection, by auto-detection or at 4800  *)
(* bauds, with or without a speed upgrade.                                  *)
InitDisconnect ==
    /\ Init
    /\ options.auto \/ options.baudRate = 4800
    /\ devCode \in {<<ChB, Chu>>, <<ChC, Chv>>}

NextDisconnect ==
    \/ Negotiation
    \/ \E w \in DOMAIN waits : WaitTimeout(w)
    \/ \E p \in DOMAIN ports : HandleInputData(p, IdReply(devCode))
    \/ BufferTimeoutFire
    \/ RunContinuation
    \/ DisconnectCall
    \/ \E p \in DOMAIN ports : DisconnectCloseCb(p)

SpecDisconnect == InitDisconnect /\ [][NextDisconnect]_vars

(* The application using the facade around a connection at a fixed speed:  *)
(* send calls and disconnect() at any point of the connection's life.       *)
InitFacade ==
    /\ Init
    /\ options = [auto |-> FALSE, baudRate |-> 4800, autoUpgradeSpeed |-> FALSE]
    /\ devCode = <<ChB, Chu>>

NextFacade ==
    \/ ConnectCall
    \/ \E err \in BOOLEAN : ProbeOpenCb(err)
    \/ ProbeSleepDone
    \/ \E err \in BOOLEAN : ClearWriteCb(err)
    \/ ClearDrainCb
    \/ \E w \in DOMAIN waits : WaitTimeout(w)
    \/ \E p \in DOMAIN ports : HandleInputData(p, IdReply(devCode))
    \/ BufferTimeoutFire
    \/ RunContinuation
    \/ \E c \in SendCalls : FacadeCall(c)
    \/ \E k \in DOMAIN calls : \E err \in BOOLEAN : FacadeWriteCb(k, err)
    \/ \E k \in DOMAIN calls : FacadeDrainCb(k)
    \/ DisconnectCall
    \/ \E p \in DOMAIN ports : DisconnectCloseCb(p)

SpecFacade == InitFacade /\ [][NextFacade]_vars

(* moveCursor() calls before connect(), and after it has succeeded or       *)
(* failed, at a fixed speed; the terminal only answers the query.          *)
NextCursor ==
    \/ ConnectCall
    \/ \E err \in BOOLEAN : ProbeOpenCb(err)
    \/ ProbeSleepDone
    \/ \E err \in BOOLEAN : ClearWriteCb(err)
    \/ ClearDrainCb
    \/ \E w \in DOMAIN waits : WaitTimeout(w)
    \/ \E p \in DOMAIN ports : cpc = "querying" /\ HandleInputData(p, IdReply(devCode))
    \/ BufferTimeoutFire
    \/ RunContinuation
    \/ \E c \in CursorCalls : cpc \in {"idle", "done", "failed"} /\ FacadeCall(c)
    \/ \E k \in DOMAIN calls : \E err \in BOOLEAN : FacadeWriteCb(k, err)
    \/ \E k \in DOMAIN calls : FacadeDrainCb(k)

SpecCursor == InitFacade /\ [][NextCursor]_vars

(* The text operations on an identified terminal: the application awaits    *)
(* connect() and then each call before it makes the next.                   *)
Settled == \A k \in DOMAIN calls : calls[k].pc \in {"done", "failed"}

NextRepeat ==
    \/ ConnectCall
    \/ \E err \in BOOLEAN : ProbeOpenCb(err)
    \/ ProbeSleepDone
    \/ \E err \in BOOLEAN : ClearWriteCb(err)
    \/ ClearDrainCb
    \/ \E w \in DOMAIN waits : WaitTimeout(w)
    \/ \E p \in DOMAIN ports : cpc = "querying" /\ HandleInputData(p, IdReply(devCode))
    \/ BufferTimeoutFire
    \/ RunContinuation
    \/ \E c \in RepeatCalls : cpc = "done" /\ Settled /\ FacadeCall(c)
    \/ \E k \in DOMAIN calls : \E err \in BOOLEAN : FacadeWriteCb(k, err)
    \/ \E k \in DOMAIN calls : FacadeDrainCb(k)

SpecRepeat == InitFacade /\ [][NextRepeat]_vars

NextText ==
    \/ ConnectCall
    \/ \E err \in BOOLEAN : ProbeOpenCb(err)
    \/ ProbeSleepDone
    \/ \E err \in BOOLEAN : ClearWriteCb(err)
    \/ ClearDrainCb
    \/ \E w \in DOMAIN waits : WaitTimeout(w)
    \/ \E p \in DOMAIN ports : cpc = "querying" /\ HandleInputData(p, IdReply(devCode))
    \/ BufferTimeoutFire
    \/ RunContinuation
    \/ \E c \in TextCalls \cup PrintCalls : cpc = "done" /\ Settled /\ FacadeCall(c)
    \/ \E k \in DOMAIN calls : \E err \in BOOLEAN : FacadeWriteCb(k, err)
    \/ \E k \in DOMAIN calls : FacadeDrainCb(k)

SpecText == InitFacade /\ [][NextText]_vars

(* setFormat(name) before, during and after the connection. *)
NextFormat ==
    \/ ConnectCall
    \/ \E err \in BOOLEAN : ProbeOpenCb(err)
    \/ ProbeSleepDone
    \/ \E err \in BOOLEAN : ClearWriteCb(err)
    \/ ClearDrainCb
    \/ \E w \in DOMAIN waits : WaitTimeout(w)
    \/ \E p \in DOMAIN ports : cpc = "querying" /\ HandleInputData(p, IdReply(devCode))
    \/ BufferTimeoutFire
    \/ RunContinuation
    \/ \E c \in FormatCalls : cpc \in {"idle", "done", "failed"} /\ FacadeCall(c)
    \/ \E k \in DOMAIN calls : \E err \in BOOLEAN : FacadeWriteCb(k, err)
    \/ \E k \in DOMAIN calls : FacadeDrainCb(k)

SpecFormat == InitFacade /\ [][NextFormat]_vars

(* The static functions applied to the arguments considered. *)
NextStatic ==
    \/ \E char \in Chars : EvalCharToMinitel(char)
    \/ \E data \in KeyData : EvalParseFunctionKey(data)

SpecStatic == InitFacade /\ [][NextStatic]_vars

(* ------------------------------------------------------------------------ *)
(* Vocabulary of the properties                                             *)
(* ------------------------------------------------------------------------ *)
Events(e) == {i \in DOMAIN log : log[i].ev = e}
Happened(e) == Events(e) # {}
Terminated == cpc \in {"done", "failed"}

(* The speeds of the probe ports opened so far, in opening order. *)
ProbeRates == [i \in 1..Cardinality({p \in DOMAIN ports : ports[p].role = "probe"}) |->
                  ports[CHOOSE p \in DOMAIN ports :
                          /\ ports[p].role = "probe"
                          /\ Cardinality({q \in 1..p : ports[q].role = "probe"}) = i].rate]

IsPrefix(a, b) == Len(a) <= Len(b) /\ \A i \in DOMAIN a : a[i] = b[i]

(* Number of writes on the line that carry the given bytes. *)
Sent(bytes) == Cardinality({i \in DOMAIN wire : wire[i].bytes = bytes})

(* Number of speed-change commands on the line. *)
SpeedCmdsSent(w) ==
    Cardinality({i \in DOMAIN w : /\ Len(w[i].bytes) = 4
                                  /\ w[i].bytes[1] = ESC
                                  /\ w[i].bytes[2] = PRO2
                                  /\ w[i].bytes[3] = PROG_VITESSE})

(* ------------------------------------------------------------------------ *)
(* C1: in auto-detect mode connect() probes 1200, 4800, 9600 in ascending   *)
(* order, each at most once, and opens no further candidate after the first *)
(* one that yields a matching identification reply.                         *)
(* ------------------------------------------------------------------------ *)
C1_ProbeOrderStopsAtFirstReply ==
    options.auto =>
        /\ IsPrefix(ProbeRates, <<1200, 4800, 9600>>)
        /\ \A i \in Events("ident") : \A j \in Events("open") : j < i

(* ------------------------------------------------------------------------ *)
(* C2: during auto-detect probing, a candidate that failed (its             *)
(* identification wait timed out) has its transport closed before the       *)
(* transport of the next candidate is opened.                               *)
(* ------------------------------------------------------------------------ *)
C2_ClosedBeforeNextOpened ==
    options.auto =>
        \A j \in Events("open") :
            log[j].p > 1 =>
                /\ ports[log[j].p - 1].st \in {"closed", "failed"}
                /\ \E i \in 1..(j - 1) :
                       /\ log[i].p = log[j].p - 1
                       /\ log[i].ev \in {"closed", "openfail"}
                /\ \A i \in Events("noreply") :
                       (i < j /\ log[i].p = log[j].p - 1) =>
                           \E c \in Events("closed") : i < c /\ c < j /\ log[c].p = log[i].p

C2_Witness ==
    /\ options.auto
    /\ \E i \in Events("noreply") : \E j \in Events("open") : i < j /\ log[j].p = log[i].p + 1

(* ------------------------------------------------------------------------ *)
(* C3: in auto-detect mode, if only the second candidate yields an          *)
(* identification reply, connect() succeeds and the current speed is the    *)
(* second candidate's speed.                                                *)
(* ------------------------------------------------------------------------ *)
OnlySecondReplied ==
    /\ options.auto
    /\ Cardinality(Events("ident")) = 1
    /\ \A i \in Events("ident") : ports[log[i].p].rate = baudRates[2]

C4_ExhaustionFails ==
    (options.auto /\ ~Happened("ident")) =>
        /\ cpc # "done"
        /\ cpc = "failed" => ProbeRates = <<1200, 4800, 9600>>

C4_Witness ==
    /\ options.auto
    /\ ~Happened("ident")
    /\ cpc = "failed"
    /\ Cardinality(Events("noreply")) = 3

(* ------------------------------------------------------------------------ *)
(* C5: at a fixed speed connect() makes one probing attempt only (one       *)
(* transport opened at the configured speed, one identification query on    *)
(* it); when that attempt fails connect() fails and no other speed is       *)
(* tried.                                                                   *)
(* ------------------------------------------------------------------------ *)
C5_FixedSpeedSingleAttempt ==
    (~options.auto /\ cpc # "idle") =>
        /\ ProbeRates = <<options.baudRate>>
        /\ Sent(QueryCmd) <= 1
        /\ \A i \in DOMAIN wire : wire[i].bytes = QueryCmd => wire[i].p = 1
        /\ (Terminated /\ Happened("opened")) => Sent(QueryCmd) = 1
        /\ (\E i \in DOMAIN log : /\ log[i].ev \in {"openfail", "noreply", "clearfail"}
                                   /\ ports[log[i].p].role = "probe") =>
               (Terminated => cpc = "failed" /\ Len(ports) = 1)

C5_Witness ==
    /\ ~options.auto
    /\ cpc = "failed"
    /\ Happened("noreply")
    /\ Sent(QueryCmd) = 1

(* ------------------------------------------------------------------------ *)
(* C6: if the speed upgrade fails at any step (the send of the speed-change *)
(* command, or the reopen at the new speed), connect() still succeeds and   *)
(* the current speed is the speed at which identification succeeded.        *)
(* ------------------------------------------------------------------------ *)
C6_FailedUpgradeKeepsSpeed ==
    Happened("upgfail") =>
        /\ cpc = "done"
        /\ \A i \in Events("ident") :
               (\A j \in Events("ident") : j <= i) => currentBaudRate = ports[log[i].p].rate

(* ------------------------------------------------------------------------ *)
(* C7: once the screen is cleared after identification, the speed-change    *)
(* command is sent if and only if upgrade is allowed and the device's       *)
(* maximum speed is strictly greater than the current speed; when the       *)
(* upgrade succeeds the old transport was closed, then a transport was      *)
(* opened at the maximum speed, and the current speed equals it.            *)
(* ------------------------------------------------------------------------ *)
C7_UpgradeDecision ==
    /\ [][ (SpeedCmdsSent(wire') > SpeedCmdsSent(wire)) <=>
               /\ cpc = "clear_drain"
               /\ cpc' # "clear_drain"
               /\ options.autoUpgradeSpeed
               /\ deviceInfo.maxSpeed > currentBaudRate ]_vars
    /\ [](Happened("upgraded") =>
            /\ currentBaudRate = deviceInfo.maxSpeed
            /\ ports[port].rate = deviceInfo.maxSpeed
            /\ ports[port].st = "open"
            /\ ports[port - 1].st = "closed"
            /\ \E c \in Events("closed") : \E r \in Events("reopen") :
                   c < r /\ log[c].p = port - 1 /\ log[r].p = port
            /\ wire[Len(wire)].bytes = SpeedCmd(deviceInfo.maxSpeed)
            /\ wire[Len(wire)].p = port - 1)

C7_Witness ==
    /\ Happened("upgraded")
    /\ cpc = "done"
    /\ currentBaudRate = 9600

(* ------------------------------------------------------------------------ *)
(* C8: every wait has exactly one outcome, a match or a timeout, and the    *)
(* first cancels the other: a match cancels the timer, and once a wait has  *)
(* its outcome no later event is tested against it or resolves it.          *)
(* ------------------------------------------------------------------------ *)
C8_OneOutcomePerWait ==
    /\ [](\A w \in DOMAIN waits : waits[w].timer <=> waits[w].st = "pending")
    /\ [][\A w \in DOMAIN waits : waits[w].st # "pending" => waits'[w] = waits[w]]_vars

(* ------------------------------------------------------------------------ *)
(* C9: a wait that timed out is no longer registered: its handler does not  *)
(* receive the input events flushed after the timeout.                      *)
(* ------------------------------------------------------------------------ *)
C9_TimedOutWaitUnregistered ==
    \A w \in DOMAIN waits : waits[w].st = "rejected" => onData # WaitHandler(w)

(* ------------------------------------------------------------------------ *)
(* C10: a flushed input event that satisfies the predicate of a pending     *)
(* wait resolves that wait and is not delivered to the application's        *)
(* onData callback.                                                         *)
(* ------------------------------------------------------------------------ *)
C10_MatchingEventResolvesWait ==
    [][ (/\ timers' # timers
         /\ timers' \subseteq timers
         /\ Len(inputBuffer) > 0
         /\ \E w \in DOMAIN waits :
                waits[w].st = "pending" /\ Predicate(waits[w].predicate, inputBuffer))
        => (/\ delivered' = delivered
            /\ \E w \in DOMAIN waits :
                   /\ waits[w].st = "pending"
                   /\ Predicate(waits[w].predicate, inputBuffer)
                   /\ waits'[w].st = "resolved") ]_vars

(* ------------------------------------------------------------------------ *)
(* Vocabulary of the framer and wait properties                             *)
(* ------------------------------------------------------------------------ *)
(* The step is a flush of a non-empty accumulator by the inactivity timer. *)
FlushStep == timers' # timers /\ timers' \subseteq timers /\ Len(inputBuffer) > 0

(* The pending waits whose predicate accepts the event. *)
PendingMatching(data) ==
    {w \in DOMAIN waits : waits[w].st = "pending" /\ Predicate(waits[w].predicate, data)}

Pending == {w \in DOMAIN waits : waits[w].st = "pending"}

(* Index of the last flush of the trace before position i, 0 if none. *)
PrevFlush(i) ==
    LET F == {j \in 1..(i - 1) : trace[j].op = "flush"}
    IN IF F = {} THEN 0 ELSE CHOOSE j \in F : \A k \in F : k <= j

(* The bytes of the trace entries lo..hi, in order. *)
RECURSIVE TraceBytes(_, _)
TraceBytes(lo, hi) == IF lo > hi THEN <<>> ELSE trace[lo].data \o TraceBytes(lo + 1, hi)

(* ------------------------------------------------------------------------ *)
(* C11: a flushed input event that matches no pending wait's predicate is   *)
(* delivered to the application's onData callback, also when it is flushed  *)
(* while a wait is still pending.                                           *)
(* ------------------------------------------------------------------------ *)
C11_UnmatchedEventDelivered ==
    [][ (FlushStep /\ PendingMatching(inputBuffer) = {})
        => (/\ Len(delivered') = Len(delivered) + 1
            /\ delivered'[Len(delivered')].data = inputBuffer) ]_vars

(* ------------------------------------------------------------------------ *)
(* C12: when several waits are pending, a flushed input event resolves the  *)
(* earliest-registered wait whose predicate matches it, and only that one:  *)
(* the waits registered later stay pending.                                 *)
(* ------------------------------------------------------------------------ *)
C12_EarliestMatchingWaitResolved ==
    [][ (FlushStep /\ Cardinality(Pending) >= 2 /\ PendingMatching(inputBuffer) # {})
        => LET first == CHOOSE w \in PendingMatching(inputBuffer) :
                            \A v \in PendingMatching(inputBuffer) : w <= v
           IN /\ waits'[first].st = "resolved"
              /\ \A w \in Pending \ {first} : waits'[w].st = "pending" ]_vars

(* ------------------------------------------------------------------------ *)
(* C13: framer grouping.  Bytes received without the inactivity timer       *)
(* firing between them are flushed as one event that holds them in order;   *)
(* bytes separated by a firing of the timer are flushed as separate events: *)
(* every flushed event is exactly the bytes received since the flush before *)
(* it, and there is at least one.                                           *)
(* ------------------------------------------------------------------------ *)
C13_FramerGrouping ==
    \A i \in DOMAIN trace :
        trace[i].op = "flush" =>
            /\ PrevFlush(i) + 1 < i
            /\ \A j \in (PrevFlush(i) + 1)..(i - 1) : trace[j].op = "rx"
            /\ trace[i].data = TraceBytes(PrevFlush(i) + 1, i - 1)

C13_Witness ==
    \E i, j \in DOMAIN trace :
        /\ i + 2 = j
        /\ trace[i] = [op |-> "flush", data |-> Garbage \o Garbage]
        /\ trace[j] = [op |-> "flush", data |-> Garbage]

(* ------------------------------------------------------------------------ *)
(* Vocabulary of the facade properties                                      *)
(* ------------------------------------------------------------------------ *)
(* The step is a call of a facade send operation. *)
CallStep == Len(calls') = Len(calls) + 1

(* Ready: connect() has completed successfully and no disconnect() has      *)
(* completed since.                                                         *)
Ready == cpc = "done" /\ port # 0 /\ ports[port].st # "closed"

(* Task k has handed bytes to the port that are not flushed yet. *)
Unflushed(k) == calls[k].pc \in {"write", "drain"}

(* ------------------------------------------------------------------------ *)
(* C14: a facade send operation called while the driver is not Ready        *)
(* (before connect() has completed successfully, or after disconnect() has  *)
(* completed) is rejected with the not-connected error and sends no bytes.  *)
(* ------------------------------------------------------------------------ *)
C14_SendsRejectedUnlessReady ==
    [][ (CallStep /\ ~Ready)
        => (/\ calls'[Len(calls')].pc = "failed"
            /\ calls'[Len(calls')].err = "notconnected"
            /\ wire' = wire) ]_vars

(* ------------------------------------------------------------------------ *)
(* C15: disconnect() is idempotent.  Called when the transport is not open  *)
(* (closed, being closed, never opened) it changes nothing and completes at *)
(* once without error; called on an open transport it leaves it not open,   *)
(* so that a second call right after it is such a no-op.                    *)
(* ------------------------------------------------------------------------ *)
C15_DisconnectIdempotent ==
    [][ disc'.n = disc.n + 1
        => IF PortIsOpen(ports, port)
           THEN ~PortIsOpen(ports', port')
           ELSE /\ disc'.done = disc.done + 1
                /\ disc'.closing = disc.closing
                /\ UNCHANGED <<ports, port, isConnected, inputBuffer, bufferTimeout, timers,
                               deviceInfo, currentBaudRate, expectedReplies, onData,
                               waits, micro, cpc, wire, delivered, calls>> ]_vars

C15_Witness ==
    /\ disc.n = 2
    /\ disc.done = 2
    /\ disc.closing = {}
    /\ cpc = "done"
    /\ ports[port].st = "closed"
    /\ ~isConnected

(* ------------------------------------------------------------------------ *)
(* C16: at most one transport is open in every reachable state, after any   *)
(* sequence of connect(), speed upgrade and disconnect() calls.             *)
(* ------------------------------------------------------------------------ *)
C16_OneOpenTransport ==
    Cardinality({p \in DOMAIN ports : ports[p].st = "open"}) <= 1

(* ------------------------------------------------------------------------ *)
(* C17: sends are serialized.  No bytes are handed to the line while an     *)
(* earlier send is not flushed yet (the only unflushed task allowed at a    *)
(* write is the one whose flush completes in that very step and which goes  *)
(* on with its next part), and the parts of one multi-part operation are    *)
(* adjacent on the line.                                                    *)
(* ------------------------------------------------------------------------ *)
C17_SendsSerialized ==
    /\ [][ Len(wire') > Len(wire)
           => /\ \A k \in DOMAIN calls : Unflushed(k) => calls'[k].w # calls[k].w
              /\ cpc \in {"clear_write", "clear_drain"} => cpc' # cpc ]_vars
    /\ [](\A k \in DOMAIN calls :
            (calls[k].op = "printAt" /\ Len(calls[k].w) = 2)
                => calls[k].w[2] = calls[k].w[1] + 1)

(* ------------------------------------------------------------------------ *)
(* C18: connect() always terminates.  Under fair timers and transport       *)
(* callbacks a connect() call that has started eventually succeeds or       *)
(* fails, and it opens at most three probe transports in auto-detect mode,  *)
(* one at a fixed speed.                                                    *)
(* ------------------------------------------------------------------------ *)
C18_ConnectTerminates ==
    /\ (cpc # "idle") ~> Terminated
    /\ [](Len(ProbeRates) <= IF options.auto THEN Len(baudRates) ELSE 1)

C18_Witness ==
    /\ options.auto
    /\ cpc = "done"
    /\ Len(ProbeRates) = Len(baudRates)
    /\ Cardinality(Events("noreply")) = 2

(* ------------------------------------------------------------------------ *)
(* C19: disableLocalEcho() on a connected driver sends the routing-off      *)
(* command, then waits for the acknowledgment with a timer of one second,   *)
(* and completes successfully whether the wait ends by the acknowledgment   *)
(* or by the timeout: the call fails only before the wait, on the send.     *)
(* ------------------------------------------------------------------------ *)
C19_EchoTimeoutSwallowed ==
    \A k \in 1..MaxEcho :
        /\ echo[k].pc \in {"wait", "done"} =>
               /\ echo[k].sent
               /\ Sent(EchoOffCmd) >= Cardinality({j \in 1..MaxEcho : echo[j].wait # 0})
               /\ echo[k].wait \in DOMAIN waits
               /\ waits[echo[k].wait].predicate = "ack"
               /\ waits[echo[k].wait].timeout = EchoTimeout
        /\ echo[k].pc = "wait" =>
               \/ waits[echo[k].wait].st = "pending" /\ waits[echo[k].wait].timer
               \/ micro = echo[k].wait
        /\ echo[k].pc = "done" => waits[echo[k].wait].st \in {"resolved", "rejected"}
        /\ echo[k].pc = "failed" => echo[k].wait = 0

C19_Witness ==
    /\ echo[1].pc = "done"
    /\ waits[echo[1].wait].st = "rejected"
    /\ Sent(EchoOffCmd) = 1

C26_UnknownCharIsPlaceholder ==
    \A i \in DOMAIN evals :
        (/\ evals[i].fn = "charToMinitel"
         /\ evals[i].arg > 127
         /\ evals[i].arg \notin TableChars)
            => evals[i].result = <<63>>

C26_Witness ==
    /\ Len(evals) = 1
    /\ evals[1] = [fn |-> "charToMinitel", arg |-> 128512, result |-> <<63>>]

(* ------------------------------------------------------------------------ *)
(* C28: parseFunctionKey(bytes) returns the second byte if and only if      *)
(* bytes is exactly two bytes long and starts with the prefix 0x13; for     *)
(* every other input it returns null.                                       *)
(* ------------------------------------------------------------------------ *)
C28_ParseFunctionKey ==
    \A i \in DOMAIN evals :
        evals[i].fn = "parseFunctionKey" =>
            IF Len(evals[i].arg) = 2 /\ Head(evals[i].arg) = 19
            THEN evals[i].result = [null |-> FALSE, code |-> evals[i].arg[2]]
            ELSE evals[i].result.null

C28_Witness ==
    /\ Len(evals) = 1
    /\ evals[1] = [fn |-> "parseFunctionKey", arg |-> <<19, 65>>,
                   result |-> [null |-> FALSE, code |-> 65]]

(* ------------------------------------------------------------------------ *)
(* C21: setFormat(name) with a name that is not in the format table fails   *)
(* with a validation error before any byte is sent; with a name of the      *)
(* table it sends exactly ESC followed by the byte of the table.            *)
(* ------------------------------------------------------------------------ *)
C21_SetFormatByName ==
    \A k \in DOMAIN calls :
        calls[k].op = "setFormat" =>
            IF toLowerCase(calls[k].name) \in FormatNames
            THEN /\ calls[k].err # "validation"
                 /\ Len(calls[k].w) <= 1
                 /\ \A i \in DOMAIN calls[k].w :
                        wire[calls[k].w[i]].bytes
                            = <<27, CODES(toLowerCase(calls[k].name))>>
                 /\ calls[k].pc = "done" => Len(calls[k].w) = 1
            ELSE /\ calls[k].pc = "failed"
                 /\ calls[k].err = "validation"
                 /\ calls[k].w = <<>>

(* ------------------------------------------------------------------------ *)
(* C22: writeRepeated(c, n) with 1 <= n <= 3 emits exactly the bytes of n   *)
(* literal encodings of c, the bytes writeText emits for c repeated n       *)
(* times, and no repeat directive.                                          *)
(* ------------------------------------------------------------------------ *)
LiteralA == <<65>>
LiteralEAcute == <<25, 66, 101>>
Literal(c) == IF c = 233 THEN LiteralEAcute ELSE LiteralA

Copies(bytes, n) == [i \in 1..(n * Len(bytes)) |-> bytes[((i - 1) % Len(bytes)) + 1]]

(* The bytes the completed call k put on the line, in order. *)
RECURSIVE EmittedFrom(_, _)
EmittedFrom(k, i) ==
    IF i > Len(calls[k].w) THEN <<>>
    ELSE wire[calls[k].w[i]].bytes \o EmittedFrom(k, i + 1)
Emitted(k) == EmittedFrom(k, 1)

RepeatDone(k) == calls[k].op = "writeRepeated" /\ calls[k].pc = "done"

C22_LiteralUpToThree ==
    \A k \in DOMAIN calls :
        (RepeatDone(k) /\ calls[k].count \in 1..3) =>
            /\ Len(calls[k].w) = 1
            /\ Emitted(k) = Copies(Literal(calls[k].char), calls[k].count)
            /\ Emitted(k) = writeTextBytes(repeat(calls[k].char, calls[k].count))
            /\ \A i \in DOMAIN Emitted(k) : Emitted(k)[i] # 18

C22_Witness ==
    \E k \in DOMAIN calls :
        /\ RepeatDone(k) /\ calls[k].char = 233 /\ calls[k].count = 3
        /\ Emitted(k) = <<25, 66, 101, 25, 66, 101, 25, 66, 101>>

(* ------------------------------------------------------------------------ *)
(* C23: writeRepeated(c, n) with 4 <= n <= 64 emits exactly 3 bytes: one    *)
(* character byte, then REP, then a count byte encoding n - 1.              *)
(* ------------------------------------------------------------------------ *)
C23_OneRepeatBlock ==
    \A k \in DOMAIN calls :
        (RepeatDone(k) /\ calls[k].count \in 4..64) =>
            /\ Len(calls[k].w) = 1
            /\ Emitted(k) = <<calls[k].char, 18, 64 + (calls[k].count - 1)>>

C23_Witness ==
    \E k \in DOMAIN calls :
        /\ RepeatDone(k) /\ calls[k].char = 65 /\ calls[k].count = 64
        /\ Emitted(k) = <<65, 18, 127>>

(* ------------------------------------------------------------------------ *)
(* C24: writeRepeated(c, n) with n > 64 emits exactly ceil(n/64) repeat     *)
(* blocks of 3 bytes each, 3 * ceil(n/64) bytes in total, every block       *)
(* covering at most 64 characters and only the last one possibly fewer.     *)
(* ------------------------------------------------------------------------ *)
CeilDiv64(n) == (n + 63) \div 64

(* The bytes of the i-th write of call k. *)
Block(k, i) == wire[calls[k].w[i]].bytes

IsRepeatBlock(b, c, covered) == b = <<c, 18, 64 + (covered - 1)>>

C24_CeilRepeatBlocks ==
    \A k \in DOMAIN calls :
        (RepeatDone(k) /\ calls[k].count > 64) =>
            LET n == calls[k].count
                m == CeilDiv64(n)
            IN /\ Len(calls[k].w) = m
               /\ Len(Emitted(k)) = 3 * m
               /\ \A i \in 1..(m - 1) : IsRepeatBlock(Block(k, i), calls[k].char, 64)
               /\ IsRepeatBlock(Block(k, m), calls[k].char, n - 64 * (m - 1))

(* Amended: n \div 64 full repeat blocks, then, when 64 does not divide n,  *)
(* what writeRepeated(c, n % 64) emits: a repeat block for a remainder of  *)
(* 4 or more, the literal encodings of c for a remainder of 1 to 3; in all  *)
(* ceil(n/64) writes.                                                       *)
C24_FullBlocksThenRemainder ==
    \A k \in DOMAIN calls :
        (RepeatDone(k) /\ calls[k].count > 64) =>
            LET n == calls[k].count
                full == n \div 64
                r == n % 64
                m == CeilDiv64(n)
            IN /\ Len(calls[k].w) = m
               /\ \A i \in 1..full : IsRepeatBlock(Block(k, i), calls[k].char, 64)
               /\ r = 0 => m = full
               /\ r \in 1..3 =>
                      /\ m = full + 1
                      /\ Block(k, m) = Copies(Literal(calls[k].char), r)
               /\ r >= 4 =>
                      /\ m = full + 1
                      /\ IsRepeatBlock(Block(k, m), calls[k].char, r)

C24_Witness ==
    \E k \in DOMAIN calls :
        /\ RepeatDone(k) /\ calls[k].char = 65 /\ calls[k].count = 130
        /\ Len(calls[k].w) = 3
        /\ Emitted(k) = <<65, 18, 127, 65, 18, 127, 65, 65>>

(* ------------------------------------------------------------------------ *)
(* C25: for every character c and every count n >= 1, expanding each repeat *)
(* directive in the bytes emitted by writeRepeated(c, n) into its           *)
(* additional copies of the preceding character yields exactly the bytes    *)
(* writeText emits for c repeated n times; for n <= 0 nothing is emitted.   *)
(* ------------------------------------------------------------------------ *)
RECURSIVE Expand(_)
Expand(b) ==
    IF b = <<>> THEN <<>>
    ELSE IF Len(b) >= 3 /\ b[2] = 18
    THEN Copies(<<b[1]>>, 1 + (b[3] - 64)) \o Expand(SubSeq(b, 4, Len(b)))
    ELSE <<b[1]>> \o Expand(Tail(b))

C25_RepeatEqualsDirectWrites ==
    \A k \in DOMAIN calls :
        RepeatDone(k) =>
            IF calls[k].count >= 1
            THEN Expand(Emitted(k))
                     = Copies(writeTextBytes(<<calls[k].char>>), calls[k].count)
            ELSE calls[k].w = <<>>

(* ------------------------------------------------------------------------ *)
(* C27: every plain ASCII character (code point <= 127) passes through the  *)
(* codec as a single unchanged byte, and writeText sends, in one write, the *)
(* concatenation of the per-character encodings in string order.            *)
(* ------------------------------------------------------------------------ *)
RECURSIVE Concat(_)
Concat(seqs) == IF seqs = <<>> THEN <<>> ELSE Head(seqs) \o Concat(Tail(seqs))

(* The encoding expected of one character: itself when ASCII. *)
Encoding(ch) == IF ch <= 127 THEN <<ch>> ELSE charToMinitel(ch)

C27_TextIsConcatenation ==
    \A k \in DOMAIN calls :
        (calls[k].op = "writeText" /\ calls[k].err = "none") =>
            /\ Len(calls[k].w) = 1
            /\ Block(k, 1) = Concat([i \in DOMAIN calls[k].text |->
                                         Encoding(calls[k].text[i])])

C27_Witness ==
    \E j, k \in DOMAIN calls :
        /\ calls[j].op = "writeText" /\ calls[j].pc = "done"
        /\ calls[j].text = [i \in 1..64 |-> i + 63]
        /\ Block(j, 1) = [i \in 1..64 |-> i + 63]
        /\ calls[k].op = "writeText" /\ calls[k].pc = "done"
        /\ calls[k].text = <<233, 65, 8364, 339>>
        /\ Block(k, 1) = <<25, 66, 101, 65, 63, 25, 122>>

(* ------------------------------------------------------------------------ *)
(* C29: printAt(row, col, text) composes moveCursor then writeText: the     *)
(* cursor-placement bytes are sent before the text bytes, and if the        *)
(* coordinates are invalid the call fails without sending the text.         *)
(* ------------------------------------------------------------------------ *)
C29_PrintAtComposes ==
    \A k \in DOMAIN calls :
        calls[k].op = "printAt" =>
            IF calls[k].row \in 0..24 /\ calls[k].col \in 1..40
            THEN /\ calls[k].err # "validation"
                 /\ Len(calls[k].w) <= 2
                 /\ Len(calls[k].w) >= 1 =>
                        Block(k, 1) = <<31, 64 + calls[k].row, 64 + calls[k].col>>
                 /\ Len(calls[k].w) = 2 =>
                        /\ calls[k].w[1] < calls[k].w[2]
                        /\ Block(k, 2) = <<66, 25, 66, 101>>
                 /\ calls[k].pc = "done" => Len(calls[k].w) = 2
            ELSE /\ calls[k].pc = "failed"
                 /\ calls[k].err = "validation"
                 /\ calls[k].w = <<>>

C29_Witness ==
    \E j, k \in DOMAIN calls :
        /\ calls[j].op = "printAt" /\ calls[j].row = 1 /\ calls[j].col = 1
        /\ calls[j].pc = "done"
        /\ Block(j, 1) = <<31, 65, 65>> /\ Block(j, 2) = <<66, 25, 66, 101>>
        /\ calls[k].op = "printAt" /\ calls[k].row = 25
        /\ calls[k].err = "validation" /\ calls[k].w = <<>>

(* ------------------------------------------------------------------------ *)
(* C30: on successful identification, the clear-screen command is sent      *)
(* after the identification reply is matched and before any speed-change    *)
(* command is sent or connect() completes.                                  *)
(* ------------------------------------------------------------------------ *)
IsClear(b) == b = <<12>>
IsSpeedCmd(b) == Len(b) = 4 /\ SubSeq(b, 1, 3) = <<27, 58, 107>>
NewlySent == IF Len(wire') > Len(wire) THEN wire'[Len(wire')].bytes ELSE <<>>

C30_ClearAfterIdentBeforeSpeed ==
    /\ [][ /\ (deviceInfo = NullInfo /\ deviceInfo' # NullInfo) => IsClear(NewlySent)
           /\ IsClear(NewlySent) =>
                  /\ cpc = "querying"
                  /\ deviceInfo' # NullInfo
                  /\ \E w \in DOMAIN waits : waits[w].st = "resolved"
           /\ (IsSpeedCmd(NewlySent) \/ (cpc # "done" /\ cpc' = "done")) =>
                  \E i \in DOMAIN wire : IsClear(wire[i].bytes) ]_vars
    /\ [](\A i \in DOMAIN wire :
            IsSpeedCmd(wire[i].bytes) =>
                \E j \in 1..(i - 1) : IsClear(wire[j].bytes))

C30_Witness ==
    /\ cpc = "done"
    /\ \E i, j \in DOMAIN wire :
           /\ 1 < i /\ i < j
           /\ wire[i - 1].bytes = <<27, 57, 123>>
           /\ IsClear(wire[i].bytes)
           /\ IsSpeedCmd(wire[j].bytes)

(* ------------------------------------------------------------------------ *)
(* C31: while a wait registered through _waitForResponse is outstanding,    *)
(* exactly one entry for it is in expectedReplies, and the entry is removed *)
(* when the wait matches or times out: the collection holds exactly the     *)
(* outstanding waits.                                                       *)
(* ------------------------------------------------------------------------ *)
EntriesOf(w) == {i \in DOMAIN expectedReplies : expectedReplies[i].wait = w}

C31_PendingCollectionIsOutstandingWaits ==
    /\ \A w \in DOMAIN waits :
           Cardinality(EntriesOf(w)) = IF waits[w].st = "pending" THEN 1 ELSE 0
    /\ Len(expectedReplies) = Cardinality(Pending)

(* ------------------------------------------------------------------------ *)
(* C32: at most one inactivity timer of the input framer is active at any   *)
(* time: every received chunk cancels the previously armed timer before     *)
(* arming a new one.                                                        *)
(* ------------------------------------------------------------------------ *)
C32_OneInactivityTimer ==
    /\ [](Cardinality(timers) <= 1 /\ \A t \in timers : t = bufferTimeout)
    /\ [][ nchunks' # nchunks =>
               /\ bufferTimeout' \notin timers
               /\ timers' = {bufferTimeout'} ]_vars

C32_Witness ==
    /\ nchunks = 2
    /\ Len(trace) = 2 /\ trace[1].op = "rx" /\ trace[2].op = "rx"
    /\ timers = {2}

(* ------------------------------------------------------------------------ *)
(* C33: the input framer neither loses, duplicates nor reorders bytes: the  *)
(* concatenation of all flushed events, in flush order, equals the sequence *)
(* of bytes received so far minus the bytes still in the accumulator, and   *)
(* every flushed event is non-empty.                                        *)
(* ------------------------------------------------------------------------ *)
RECURSIVE OpBytes(_, _)
OpBytes(op, i) ==
    IF i > Len(trace) THEN <<>>
    ELSE (IF trace[i].op = op THEN trace[i].data ELSE <<>>) \o OpBytes(op, i + 1)

C33_FramerPreservesBytes ==
    /\ OpBytes("flush", 1) \o inputBuffer = OpBytes("rx", 1)
    /\ \A i \in DOMAIN trace : trace[i].op = "flush" => trace[i].data # <<>>

C33_Witness ==
    /\ Len(trace) = 5
    /\ trace[1].op = "rx" /\ trace[2].op = "flush"
    /\ trace[3].op = "rx" /\ trace[4].op = "rx" /\ trace[5].op = "flush"
    /\ trace[2].data # trace[5].data
    /\ inputBuffer = <<>>

(* ------------------------------------------------------------------------ *)
(* C34: in every reachable state, isConnected being true implies that the   *)
(* transport is open, including after a failed speed-upgrade reopen and     *)
(* after a failed probe.                                                    *)
(* ------------------------------------------------------------------------ *)
C34_ConnectedImpliesOpen == isConnected => PortIsOpen(ports, port)

(* ------------------------------------------------------------------------ *)
(* C35: whenever connect() fails (in auto or fixed mode, including a        *)
(* failure of the clear-screen send that follows a successful               *)
(* identification), isConnected is false when the failure is reported.      *)
(* ------------------------------------------------------------------------ *)
C35_FailedConnectNotConnected == cpc = "failed" => ~isConnected

(* ------------------------------------------------------------------------ *)
(* C36: when a wait completes (by match or by timeout), the application     *)
(* callback in effect is the one most recently assigned by the application, *)
(* including when the application assigned onData while the wait was        *)
(* pending; completing a wait never replaces it with an older callback.     *)
(* ------------------------------------------------------------------------ *)
Completes(w) == waits[w].st = "pending" /\ waits'[w].st # "pending"

C36_CompletionKeepsLatestCallback ==
    [][ (\E w \in DOMAIN waits : Completes(w)) =>
            (onData'.kind = "app" => onData' = AppHandler(nsets)) ]_vars

(* ------------------------------------------------------------------------ *)
(* C37: when two waits overlap in time, in whatever order they match or     *)
(* time out, once both have completed no wait handler remains installed:    *)
(* the next flushed input event is delivered to the application callback    *)
(* and is not swallowed by a completed wait.                                *)
(* ------------------------------------------------------------------------ *)
C37_NoHandlerLeftAfterCompletion ==
    /\ [](Pending = {} => onData.kind = "app")
    /\ [][ (Pending = {} /\ FlushStep) => Len(delivered') = Len(delivered) + 1 ]_vars

(* ------------------------------------------------------------------------ *)
(* C38: bytes received on a transport that has since been closed are never  *)
(* part of the byte sequence tested against a wait registered after the     *)
(* next transport is opened, so leftover garbage from a failed candidate    *)
(* cannot make a valid identification reply at the next candidate fail to   *)
(* match.                                                                   *)
(* ------------------------------------------------------------------------ *)
(* The port wait w was registered on: the port of the w-th query. *)
WaitPort(w) ==
    LET Q == Events("query")
    IN log[CHOOSE i \in Q : Cardinality({j \in Q : j <= i}) = w].p

C38_NoLeftoverBytesTested ==
    \A w \in DOMAIN waits :
        WaitPort(w) > 1 =>
            /\ \A i \in DOMAIN waits[w].responseData : waits[w].responseData[i] # 127
            /\ waits[w].responseData # <<>> => waits[w].st = "resolved"

(* ------------------------------------------------------------------------ *)
(* C39: after disconnect() has completed, no input event is delivered to    *)
(* the application callback and no wait is resolved; an inactivity timer    *)
(* armed before the disconnect does not flush afterwards.                   *)
(* ------------------------------------------------------------------------ *)
(* connect() has returned, a disconnect() has completed and no port is left *)
(* open or being opened or closed.                                          *)
Disconnected ==
    /\ disc.done >= 1
    /\ cpc \in {"done", "failed"}
    /\ \A p \in DOMAIN ports : ports[p].st \in {"closed", "failed"}

C39_QuietAfterDisconnect ==
    [][ Disconnected =>
            /\ delivered' = delivered
            /\ \A w \in DOMAIN waits : waits'[w].st = "resolved" => waits[w].st = "resolved"
            /\ ~FlushStep ]_vars

====
